---- MODULE Spec2Model ----
(***************************************************************************)
(* A model of webr's HTML segment tokenizer (webr/html/parser.py,          *)
(* HTMLParser) and tree builder (webr/html/document.py, HTMLDocument).     *)
(*                                                                         *)
(* The source buffer is a sequence of one-character strings.  Offsets are  *)
(* the 0-based offsets of the Python code: the character at offset p of    *)
(* buffer h is h[p + 1].  Captured texts and names are TLA+ strings, built *)
(* from the characters with Str.                                           *)
(***************************************************************************)
EXTENDS Integers, Sequences, FiniteSets, TLC

----------------------------------------------------------------------------
(* Characters and Python's str methods                                     *)

LowerSeq == <<"a","b","c","d","e","f","g","h","i","j","k","l","m",
              "n","o","p","q","r","s","t","u","v","w","x","y","z">>
UpperSeq == <<"A","B","C","D","E","F","G","H","I","J","K","L","M",
              "N","O","P","Q","R","S","T","U","V","W","X","Y","Z">>
Digits == {"0","1","2","3","4","5","6","7","8","9"}
Whitespace == {" ", "\n", "\t", "\r"}
Quotes == {"\"", "'"}

Range(s) == {s[i] : i \in DOMAIN s}
Lowers == Range(LowerSeq)
Uppers == Range(UpperSeq)
Letters == Lowers \cup Uppers
\* the lower-case and the upper-case form of each letter
ToLower == [c \in Uppers |-> LowerSeq[CHOOSE i \in DOMAIN UpperSeq : UpperSeq[i] = c]]
ToUpper == [c \in Lowers |-> UpperSeq[CHOOSE i \in DOMAIN LowerSeq : LowerSeq[i] = c]]

isspace(c) == c \in Whitespace
isalpha(c) == c \in Letters
isalnum(c) == c \in Letters \/ c \in Digits

lowerChar(c) == IF c \in Uppers THEN ToLower[c] ELSE c
upperChar(c) == IF c \in Lowers THEN ToUpper[c] ELSE c
lower(t) == [i \in DOMAIN t |-> lowerChar(t[i])]
upper(t) == [i \in DOMAIN t |-> upperChar(t[i])]

Min(a, b) == IF a < b THEN a ELSE b

\* h[a:b] of Python, for 0 <= a
Slice(h, a, b) == SubSeq(h, a + 1, Min(b, Len(h)))

RECURSIVE Str(_)
\* the string made of the characters of t
Str(t) == IF t = <<>> THEN "" ELSE Head(t) \o Str(Tail(t))

RECURSIVE lstrip(_)
lstrip(t) == IF t # <<>> /\ isspace(Head(t)) THEN lstrip(Tail(t)) ELSE t
RECURSIVE rstrip(_)
rstrip(t) ==
  IF t # <<>> /\ isspace(t[Len(t)]) THEN rstrip(SubSeq(t, 1, Len(t) - 1)) ELSE t
strip(t) == rstrip(lstrip(t))

RECURSIVE find(_, _, _)
\* h.find(sub, p): the first offset >= p where sub occurs, or -1
find(h, sub, p) ==
  IF p + Len(sub) > Len(h) THEN -1
  ELSE IF SubSeq(h, p + 1, p + Len(sub)) = sub THEN p
  ELSE find(h, sub, p + 1)

----------------------------------------------------------------------------
(* Results of the read attempts                                            *)

\* "return None" of a read attempt that returns an offset
None == -1
\* an IndexError raised by self._html[position] with position >= len(html)
IndexError == -2

\* Optional[HTMLParserSegment] = None
NoSegment ==
  [kind |-> "none", text |-> "", start |-> 0, end |-> 0, name |-> "",
   attributes |-> <<>>, open |-> FALSE, close |-> FALSE, comment |-> ""]
\* the read attempt ended in an IndexError instead of returning
RaisedIndexError == [NoSegment EXCEPT !.kind = "indexerror"]

HTMLParserElementSegment(text, start, end, name, open, close, attributes) ==
  [kind |-> "element", text |-> text, start |-> start, end |-> end,
   name |-> name, attributes |-> attributes, open |-> open, close |-> close,
   comment |-> ""]
HTMLParserTextSegment(text, start, end) ==
  [NoSegment EXCEPT !.kind = "text", !.text = text, !.start = start, !.end = end]
HTMLParserCommentSegment(text, start, end, comment) ==
  [NoSegment EXCEPT !.kind = "comment", !.text = text, !.start = start,
                    !.end = end, !.comment = comment]

\* a Dict[str, str] in insertion order: a sequence of <<key, value>>
HasKey(attributes, k) == \E i \in DOMAIN attributes : attributes[i][1] = k
\* attributes[k] = v
DictSet(attributes, k, v) ==
  IF HasKey(attributes, k)
    THEN [i \in DOMAIN attributes |->
            IF attributes[i][1] = k THEN <<k, v>> ELSE attributes[i]]
    ELSE Append(attributes, <<k, v>>)

----------------------------------------------------------------------------
(* HTMLParser: parsing utility methods                                     *)

RECURSIVE readWhitespace(_, _)
readWhitespace(h, position) ==
  IF position < Len(h) /\ isspace(h[position + 1])
    THEN readWhitespace(h, position + 1)
    ELSE position

unwrap(text) ==
  IF text # <<>> /\ Head(text) \in Quotes
    THEN Slice(text, 1, Len(text) - 1)
    ELSE text

DoctypeName == <<"!","D","O","C","T","Y","P","E">>

\* a reader that takes the doctype name in any casing in both modes
readTagNameDoctypeAnyCase(h, strict, position) ==
  LET end == position + Len(DoctypeName) IN
  IF end < Len(h) /\ upper(Slice(h, position, end)) = DoctypeName
    THEN IF isspace(h[end + 1]) \/ h[end + 1] \in {"/", ">"} THEN end ELSE None
    ELSE None

readTagNameDoctype(h, strict, position) ==
  LET end == position + Len(DoctypeName) IN
  IF end < Len(h)
     /\ (Slice(h, position, end) = DoctypeName
         \/ (~strict /\ upper(Slice(h, position, end)) = DoctypeName))
    THEN IF isspace(h[end + 1]) \/ h[end + 1] \in {"/", ">"} THEN end ELSE None
    ELSE None

RECURSIVE scanTagName(_, _, _, _)
\* the while loop of _readTagName
scanTagName(h, strict, start, position) ==
  IF position < Len(h) /\ ~(isspace(h[position + 1]) \/ h[position + 1] \in {"/", ">"})
    THEN LET char == h[position + 1] IN
         IF strict /\ position = start /\ ~isalpha(char) /\ char # "_" THEN None
         ELSE IF strict /\ position # start /\ ~isalnum(char)
                 /\ char \notin {"-", "_", "."} THEN None
         ELSE scanTagName(h, strict, start, position + 1)
    ELSE IF position > start THEN position ELSE None

readTagName(h, strict, position) ==
  LET result == readTagNameDoctype(h, strict, position) IN
  IF result # None THEN result ELSE scanTagName(h, strict, position, position)

RECURSIVE scanQuoted(_, _, _)
\* the while loop over a quoted attribute name or value, after the opening quote
scanQuoted(h, quote, position) ==
  IF position < Len(h)
    THEN LET char == h[position + 1] IN
         IF char = quote THEN position + 1
         ELSE IF char = "\\" THEN scanQuoted(h, quote, position + 2)
         ELSE scanQuoted(h, quote, position + 1)
    ELSE None

RECURSIVE scanUnquoted(_, _, _)
\* the while loop over an unquoted attribute name (stops = {"=", "/", ">"}) or
\* value (stops = {"/", ">"}); the strict test of the name loop reads
\* "not char.isalnum", a bound method, and so never rejects a character
scanUnquoted(h, stops, position) ==
  IF position < Len(h) /\ ~(isspace(h[position + 1]) \/ h[position + 1] \in stops)
    THEN scanUnquoted(h, stops, position + 1)
    ELSE position

readTagAttributeProperty(h, strict, position) ==
  IF position >= Len(h) THEN IndexError
  ELSE IF strict /\ h[position + 1] \in Quotes THEN None
  ELSE IF h[position + 1] \in Quotes
    THEN scanQuoted(h, h[position + 1], position + 1)
  ELSE LET end == scanUnquoted(h, {"=", "/", ">"}, position) IN
       IF end > position THEN end ELSE None

readTagAttributeValue(h, strict, position) ==
  IF position >= Len(h) THEN IndexError
  ELSE IF h[position + 1] \in Quotes
    THEN scanQuoted(h, h[position + 1], position + 1)
  ELSE IF ~strict THEN scanUnquoted(h, {"/", ">"}, position)
  ELSE None

\* the result of an attribute read: the end offset (or None, or IndexError) and
\* the dictionary as the read leaves it
AttributeResult(position, attributes) ==
  [position |-> position, attributes |-> attributes]

\* the end of _readTagAttribute: the duplicate test and attributes[name] = value
storeAttribute(strict, attributes, name, value, position) ==
  IF strict /\ HasKey(attributes, name) THEN AttributeResult(None, attributes)
  ELSE AttributeResult(position, DictSet(attributes, name, value))

\* _readTagAttribute after "=": result is the end of the value read at position
readTagAttributeAssigned(h, strict, attributes, name, position, result) ==
  IF result < 0 THEN AttributeResult(result, attributes)
  ELSE storeAttribute(strict, attributes, name,
                      Str(unwrap(Slice(h, position, result))), result)

\* _readTagAttribute after the name and the whitespace that follows it
readTagAttributeNamed(h, strict, attributes, name, position) ==
  IF position >= Len(h) THEN AttributeResult(IndexError, attributes)
  ELSE IF h[position + 1] = "="
    THEN readTagAttributeAssigned(h, strict, attributes, name, position + 1,
                                  readTagAttributeValue(h, strict, position + 1))
  ELSE storeAttribute(strict, attributes, name, "true", position)

\* _readTagAttribute from the start of the name: result is the end of the name
readTagAttributeAt(h, strict, attributes, position, result) ==
  IF result < 0 THEN AttributeResult(result, attributes)
  ELSE readTagAttributeNamed(h, strict, attributes,
                             Str(lower(strip(unwrap(Slice(h, position, result))))),
                             readWhitespace(h, result))

\* the attribute name is read after the leading whitespace
readTagAttributeFrom(h, strict, attributes, position) ==
  readTagAttributeAt(h, strict, attributes, position,
                     readTagAttributeProperty(h, strict, position))

\* _readTagAttribute
readTagAttribute(h, strict, position, attributes) ==
  readTagAttributeFrom(h, strict, attributes, readWhitespace(h, position))

RECURSIVE readTagAttributes(_, _, _, _)
\* the "Read all attributes" loop of _readTag
readTagAttributes(h, strict, position, attributes) ==
  LET result == readTagAttribute(h, strict, position, attributes) IN
  IF result.position = IndexError THEN result
  ELSE IF result.position = None
    THEN [position |-> position, attributes |-> result.attributes]
  ELSE readTagAttributes(h, strict, readWhitespace(h, result.position),
                         result.attributes)

----------------------------------------------------------------------------
(* HTMLParser: parsing main methods                                        *)

\* a reader that skips that whitespace in both modes
anyModeWhitespace(h, strict, position) == readWhitespace(h, position)

\* the whitespace that only lenient mode skips inside a tag
lenientWhitespace(h, strict, position) ==
  IF ~strict THEN readWhitespace(h, position) ELSE position

\* _readTag at the closing angle bracket
readTagEnd(h, start, name, open, close, attributes, position) ==
  IF position >= Len(h) THEN RaisedIndexError
  ELSE IF h[position + 1] # ">" THEN NoSegment
  ELSE HTMLParserElementSegment(Str(Slice(h, start, position + 1)), start,
                                position + 1, name, open, close, attributes)

\* a reading of the self-closing slash that leaves the close flag as it was
readTagSlashIgnored(h, strict, start, isClose, name, attributes, position) ==
  IF position >= Len(h) THEN RaisedIndexError
  ELSE IF h[position + 1] = "/"
    THEN IF strict /\ isClose THEN NoSegment
         ELSE readTagEnd(h, start, name, ~isClose, isClose, attributes,
                         lenientWhitespace(h, strict, position + 1))
  ELSE readTagEnd(h, start, name, ~isClose, isClose, attributes,
                  lenientWhitespace(h, strict, position))

\* _readTag after the attributes: the self-closing slash
readTagSlash(h, strict, start, isClose, name, attributes, position) ==
  IF position >= Len(h) THEN RaisedIndexError
  ELSE IF h[position + 1] = "/"
    THEN IF strict /\ isClose THEN NoSegment
         ELSE readTagEnd(h, start, name, ~isClose, TRUE, attributes,
                         lenientWhitespace(h, strict, position + 1))
  ELSE readTagEnd(h, start, name, ~isClose, isClose, attributes,
                  lenientWhitespace(h, strict, position))

\* _readTag after the attribute loop, which left attrs
readTagAttributed(h, strict, start, isClose, name, attrs) ==
  IF attrs.position = IndexError THEN RaisedIndexError
  ELSE IF isClose /\ Len(attrs.attributes) > 0 THEN NoSegment
  ELSE readTagSlash(h, strict, start, isClose, name, attrs.attributes, attrs.position)

\* a reader that keeps the casing of the name
tagNameAsWritten(t) == Str(unwrap(t))

\* the name of a tag as _readTag stores it: unwrapped and in lower case
tagName(t) == Str(lower(unwrap(t)))

\* _readTag from the tag name at position: result is the end of the name
readTagNamed(h, strict, start, isClose, position, result) ==
  IF result = None THEN NoSegment
  ELSE readTagAttributed(h, strict, start, isClose,
                         tagName(Slice(h, position, result)),
                         readTagAttributes(h, strict, readWhitespace(h, result), <<>>))

\* _readTag after "<" or "</"
readTagFrom(h, strict, start, isClose, position) ==
  readTagNamed(h, strict, start, isClose, position, readTagName(h, strict, position))

\* _readTag: an element segment, NoSegment (return None) or RaisedIndexError
readTag(h, strict, start) ==
  IF start >= Len(h) THEN RaisedIndexError
  ELSE IF h[start + 1] # "<" THEN NoSegment
  ELSE IF start + 1 >= Len(h) THEN RaisedIndexError
  ELSE IF h[start + 2] = "/"
    THEN readTagFrom(h, strict, start, TRUE, lenientWhitespace(h, strict, start + 2))
  ELSE readTagFrom(h, strict, start, FALSE, lenientWhitespace(h, strict, start + 1))

CommentStart == <<"<","!","-","-">>
CommentEnd == <<"-","-",">">>

\* _readComment after "<!--": found is the offset of "-->", if any
readCommentEnd(h, start, found) ==
  IF found >= 0
    THEN HTMLParserCommentSegment(Str(Slice(h, start, found + 3)), start,
                                  found + 3, Str(strip(Slice(h, start + 4, found))))
    ELSE NoSegment

\* a tokenizer that reads no comments
readCommentNever(h, start) == NoSegment

\* _readComment: a comment segment or NoSegment
readComment(h, start) ==
  IF Slice(h, start, start + 4) # CommentStart THEN NoSegment
  ELSE readCommentEnd(h, start, find(h, CommentEnd, start + 4))

\* a text read that captures the slice as it is
capturedTextExact(h, start, end) == Str(Slice(h, start, end))

\* the text segment a text read captures between start and end
capturedText(h, start, end) == Str(strip(Slice(h, start, end)))

\* the result of _readText and _readSpecialContextText: the segment returned and
\* the segment stored in self._segmentNext (NoSegment: not assigned)
TextResult(segment, segmentNext) == [segment |-> segment, segmentNext |-> segmentNext]

\* "This text node is the end of the file": the remainder in lenient mode
trailingText(h, strict, start) ==
  IF ~strict
    THEN TextResult(HTMLParserTextSegment(capturedText(h, start, Len(h)), start, Len(h)),
                    NoSegment)
    ELSE TextResult(NoSegment, NoSegment)

\* a text read that does not keep the segment that ends the text
textBeforeUncached(h, start, segmentNext) ==
  TextResult(HTMLParserTextSegment(capturedText(h, start, segmentNext.start),
                                   start, segmentNext.start),
             NoSegment)

\* a text read found the segment that ends the text
textBefore(h, start, segmentNext) ==
  TextResult(HTMLParserTextSegment(capturedText(h, start, segmentNext.start),
                                   start, segmentNext.start),
             segmentNext)

\* "Check for a comment or a tag (in that order)" at a "<"
readCommentOrTag(h, strict, position, comment) ==
  IF comment.kind # "none" THEN comment ELSE readTag(h, strict, position)

RECURSIVE scanText(_, _, _, _)
RECURSIVE scanTextAt(_, _, _, _, _)
\* the body of the while loop of _readText, at the "<" at position
scanTextAt(h, strict, start, position, segmentNext) ==
  IF segmentNext.kind = "indexerror" THEN TextResult(RaisedIndexError, NoSegment)
  ELSE IF segmentNext.kind # "none" THEN textBefore(h, start, segmentNext)
  ELSE scanText(h, strict, start, find(h, <<"<">>, position + 1))

\* the while loop of _readText: position is the result of find
scanText(h, strict, start, position) ==
  IF position < 0 THEN trailingText(h, strict, start)
  ELSE scanTextAt(h, strict, start, position,
                  readCommentOrTag(h, strict, position, readComment(h, position)))

readText(h, strict, position) ==
  scanText(h, strict, position, find(h, <<"<">>, position))

\* the test _readSpecialContextTagEnd makes on the tag it read
specialContextTagEnd(segment, contextTag) ==
  IF segment.kind = "indexerror" THEN segment
  ELSE IF segment.kind # "none" /\ ~segment.open /\ segment.close
          /\ segment.name = contextTag
    THEN segment
  ELSE NoSegment

\* _readSpecialContextTagEnd
readSpecialContextTagEnd(h, strict, position, contextTag) ==
  specialContextTagEnd(readTag(h, strict, position), contextTag)

RECURSIVE scanSpecialContextText(_, _, _, _, _)
RECURSIVE scanSpecialContextTextAt(_, _, _, _, _, _)
\* the body of the while loop of _readSpecialContextText, at the "<" at position
scanSpecialContextTextAt(h, strict, start, position, contextTag, segmentNext) ==
  IF segmentNext.kind = "indexerror" THEN TextResult(RaisedIndexError, NoSegment)
  ELSE IF segmentNext.kind # "none" THEN textBefore(h, start, segmentNext)
  ELSE scanSpecialContextText(h, strict, start, find(h, <<"<">>, position + 1),
                              contextTag)

\* the while loop of _readSpecialContextText: position is the result of find
scanSpecialContextText(h, strict, start, position, contextTag) ==
  IF position < 0 THEN trailingText(h, strict, start)
  ELSE scanSpecialContextTextAt(h, strict, start, position, contextTag,
         readSpecialContextTagEnd(h, strict, position, contextTag))

readSpecialContextText(h, strict, position, contextTag) ==
  scanSpecialContextText(h, strict, position, find(h, <<"<">>, position), contextTag)

\* HTMLParser._contextSwitchTags
contextSwitchTags == {"script", "style", "block"}

\* a tokenizer without the raw-text context
neverSpecialContext(segmentCurrent) == FALSE

\* the previous segment switches the tokenizer to the raw-text context
inSpecialContext(segmentCurrent) ==
  /\ segmentCurrent.kind = "element"
  /\ ~segmentCurrent.close
  /\ segmentCurrent.name \in contextSwitchTags

(***************************************************************************)
(* HTMLParser.next on the parser state p = [position, segmentCurrent,      *)
(* segmentNext].  The outcome is                                           *)
(*   "segment": a segment is returned        "none":  None is returned     *)
(*   "raise":   the "Could not read" exception of next                     *)
(*   "indexerror": an IndexError leaves a read attempt                     *)
(* together with the parser state the call leaves behind.                  *)
(***************************************************************************)
Outcome(outcome, segment, position, segmentCurrent, segmentNext) ==
  [outcome |-> outcome, segment |-> segment,
   parser |-> [position |-> position, segmentCurrent |-> segmentCurrent,
               segmentNext |-> segmentNext]]

\* a next() that leaves the cursor at the start of the segment it returns
returnSegmentStaying(segment, segmentNext) ==
  Outcome("segment", segment, segment.start, segment, segmentNext)

\* "Update parser location and state" and return the segment
returnSegment(segment, segmentNext) ==
  Outcome("segment", segment, segment.end, segment, segmentNext)

\* a next() that ends without a segment and leaves the cursor at the start
noSegmentRewinds(outcome, p, position) ==
  Outcome(outcome, NoSegment, 0, p.segmentCurrent, p.segmentNext)

\* a next() that unsets the current segment when it ends without a segment
noSegmentForgets(outcome, p, position) ==
  Outcome(outcome, NoSegment, position, NoSegment, p.segmentNext)

\* next() ends without a segment: None, or an exception
noSegment(outcome, p, position) ==
  Outcome(outcome, NoSegment, position, p.segmentCurrent, p.segmentNext)

\* next() with the result of a text read; ifNone is what a text read that
\* returned None leads to
nextText(p, position, text, ifNone) ==
  IF text.segment.kind = "indexerror" THEN noSegment("indexerror", p, position)
  ELSE IF text.segment.kind = "none" THEN noSegment(ifNone, p, position)
  ELSE returnSegment(text.segment,
         IF text.segmentNext.kind # "none" THEN text.segmentNext ELSE p.segmentNext)

\* next() in the special context: tagEnd is the result of _readSpecialContextTagEnd
nextSpecialContext(h, strict, p, position, tagEnd) ==
  IF tagEnd.kind = "indexerror" THEN noSegment("indexerror", p, position)
  ELSE IF tagEnd.kind # "none" THEN returnSegment(tagEnd, p.segmentNext)
  ELSE nextText(p, position,
                readSpecialContextText(h, strict, position, p.segmentCurrent.name),
                "none")

\* next() after the comment read failed: tag is the result of _readTag
nextTag(h, strict, p, position, tag) ==
  IF tag.kind = "indexerror" THEN noSegment("indexerror", p, position)
  ELSE IF tag.kind # "none" THEN returnSegment(tag, p.segmentNext)
  ELSE nextText(p, position, readText(h, strict, position), "raise")

\* next() outside the special context: comment is the result of _readComment
nextUncached(h, strict, p, position, comment) ==
  IF comment.kind # "none" THEN returnSegment(comment, p.segmentNext)
  ELSE nextTag(h, strict, p, position, readTag(h, strict, position))

\* next() after the whitespace was skipped
nextAt(h, strict, p, position) ==
  IF position = Len(h) THEN noSegment("none", p, position)
  ELSE IF p.segmentNext.kind # "none" THEN returnSegment(p.segmentNext, NoSegment)
  ELSE IF inSpecialContext(p.segmentCurrent)
    THEN nextSpecialContext(h, strict, p, position,
           readSpecialContextTagEnd(h, strict, position, p.segmentCurrent.name))
  ELSE nextUncached(h, strict, p, position, readComment(h, position))

\* next() without the whitespace skip of its first line
nextUnskipped(h, strict, p) == nextAt(h, strict, p, p.position)

\* HTMLParser.next
next(h, strict, p) == nextAt(h, strict, p, readWhitespace(h, p.position))

\* HTMLParser.__init__
newParser == [position |-> 0, segmentCurrent |-> NoSegment, segmentNext |-> NoSegment]

----------------------------------------------------------------------------
(* Source texts                                                            *)
(*                                                                         *)
(* A source text is assembled as the tests assemble theirs                 *)
(* (tests/htmltools/builder.py, tests/helpers/htmlbuilder.py): a list of   *)
(* segments, joined with nothing or with the delimiter "\n\t ".  Besides   *)
(* the segments the builders emit (doctype, open, close, void, comment,    *)
(* text) there are two that no builder emits ("junk"): a lone "<" and a    *)
(* tag with an unquoted attribute value.                                   *)

Pieces == <<
  [id |-> "<a>", kind |-> "open", name |-> "a",
   chars |-> <<"<","a",">">>],
  [id |-> "</a>", kind |-> "close", name |-> "a",
   chars |-> <<"<","/","a",">">>],
  [id |-> "<br b=\"c\" />", kind |-> "void", name |-> "br",
   chars |-> <<"<","b","r"," ","b","=","\"","c","\""," ","/",">">>],
  [id |-> "x", kind |-> "text", name |-> "",
   chars |-> <<"x">>],
  [id |-> "<!-- c -->", kind |-> "comment", name |-> "",
   chars |-> <<"<","!","-","-"," ","c"," ","-","-",">">>],
  [id |-> "<script>", kind |-> "open", name |-> "script",
   chars |-> <<"<","s","c","r","i","p","t",">">>],
  [id |-> "</script>", kind |-> "close", name |-> "script",
   chars |-> <<"<","/","s","c","r","i","p","t",">">>],
  [id |-> "<!DOCTYPE html>", kind |-> "doctype", name |-> "!doctype",
   chars |-> <<"<","!","D","O","C","T","Y","P","E"," ","h","t","m","l",">">>],
  [id |-> "<!doctype html>", kind |-> "doctype", name |-> "!doctype",
   chars |-> <<"<","!","d","o","c","t","y","p","e"," ","h","t","m","l",">">>],
  [id |-> "<!DocType html>", kind |-> "doctype", name |-> "!doctype",
   chars |-> <<"<","!","D","o","c","T","y","p","e"," ","h","t","m","l",">">>],
  [id |-> "<P>", kind |-> "open", name |-> "p",
   chars |-> <<"<","P",">">>],
  [id |-> "</P>", kind |-> "close", name |-> "p",
   chars |-> <<"<","/","P",">">>],
  [id |-> "<SCRIPT>", kind |-> "open", name |-> "script",
   chars |-> <<"<","S","C","R","I","P","T",">">>],
  [id |-> "</SCRIPT>", kind |-> "close", name |-> "script",
   chars |-> <<"<","/","S","C","R","I","P","T",">">>],
  [id |-> "<p ID=\"a\">", kind |-> "open", name |-> "p",
   chars |-> <<"<","p"," ","I","D","=","\"","a","\"",">">>],
  [id |-> "<", kind |-> "junk", name |-> "",
   chars |-> <<"<">>],
  [id |-> "<a b=c>", kind |-> "junk", name |-> "",
   chars |-> <<"<","a"," ","b","=","c",">">>],
  [id |-> "<p>", kind |-> "open", name |-> "p",
   chars |-> <<"<","p",">">>],
  [id |-> "</p>", kind |-> "close", name |-> "p",
   chars |-> <<"<","/","p",">">>],
  [id |-> "<b>", kind |-> "open", name |-> "b",
   chars |-> <<"<","b",">">>],
  [id |-> "</b>", kind |-> "close", name |-> "b",
   chars |-> <<"<","/","b",">">>],
  [id |-> "<br>", kind |-> "void", name |-> "br",
   chars |-> <<"<","b","r",">">>],
  [id |-> "A", kind |-> "text", name |-> "",
   chars |-> <<"A">>],
  [id |-> "B", kind |-> "text", name |-> "",
   chars |-> <<"B">>],
  [id |-> "y", kind |-> "text", name |-> "",
   chars |-> <<"y">>],
  [id |-> "Hi", kind |-> "text", name |-> "",
   chars |-> <<"H","i">>],
  [id |-> "<div>", kind |-> "open", name |-> "div",
   chars |-> <<"<","d","i","v",">">>],
  [id |-> "</div>", kind |-> "close", name |-> "div",
   chars |-> <<"<","/","d","i","v",">">>],
  [id |-> "<html>", kind |-> "open", name |-> "html",
   chars |-> <<"<","h","t","m","l",">">>],
  [id |-> "</html>", kind |-> "close", name |-> "html",
   chars |-> <<"<","/","h","t","m","l",">">>],
  [id |-> "<head>", kind |-> "open", name |-> "head",
   chars |-> <<"<","h","e","a","d",">">>],
  [id |-> "</head>", kind |-> "close", name |-> "head",
   chars |-> <<"<","/","h","e","a","d",">">>],
  [id |-> "<title>", kind |-> "open", name |-> "title",
   chars |-> <<"<","t","i","t","l","e",">">>],
  [id |-> "</title>", kind |-> "close", name |-> "title",
   chars |-> <<"<","/","t","i","t","l","e",">">>],
  [id |-> "<body>", kind |-> "open", name |-> "body",
   chars |-> <<"<","b","o","d","y",">">>],
  [id |-> "</body>", kind |-> "close", name |-> "body",
   chars |-> <<"<","/","b","o","d","y",">">>],
  [id |-> "<input type=\"text\" />", kind |-> "void", name |-> "input",
   chars |-> <<"<","i","n","p","u","t"," ","t","y","p","e","=","\"","t","e","x","t","\""," ","/",">">>],
  [id |-> "Testing...", kind |-> "text", name |-> "",
   chars |-> <<"T","e","s","t","i","n","g",".",".",".">>],
  [id |-> "< p>", kind |-> "junk", name |-> "p",
   chars |-> <<"<"," ","p",">">>],
  [id |-> "<p b=\"c\" b=\"c\">", kind |-> "junk", name |-> "p",
   chars |-> <<"<","p"," ","b","=","\"","c","\""," ","b","=","\"","c","\"",">">>],
  [id |-> "<p \"b\"=\"c\">", kind |-> "junk", name |-> "p",
   chars |-> <<"<","p"," ","\"","b","\"","=","\"","c","\"",">">>],
  [id |-> "<p b=c>", kind |-> "junk", name |-> "p",
   chars |-> <<"<","p"," ","b","=","c",">">>],
  [id |-> "</p b=\"c\">", kind |-> "junk", name |-> "p",
   chars |-> <<"<","/","p"," ","b","=","\"","c","\"",">">>],
  [id |-> "</ p>", kind |-> "junk", name |-> "p",
   chars |-> <<"<","/"," ","p",">">>],
  [id |-> "<br/ >", kind |-> "junk", name |-> "br",
   chars |-> <<"<","b","r","/"," ",">">>],
  [id |-> "<p >", kind |-> "open", name |-> "p",
   chars |-> <<"<","p"," ",">">>],
  [id |-> "<head />", kind |-> "void", name |-> "head",
   chars |-> <<"<","h","e","a","d"," ","/",">">>],
  [id |-> "<body />", kind |-> "void", name |-> "body",
   chars |-> <<"<","b","o","d","y"," ","/",">">>],
  [id |-> "<p b='c\"d'>", kind |-> "open", name |-> "p",
   chars |-> <<"<","p"," ","b","=","'","c","\"","d","'",">">>],
  [id |-> "<p 'b c'='d'>", kind |-> "junk", name |-> "p",
   chars |-> <<"<","p"," ","'","b"," ","c","'","=","'","d","'",">">>],
  [id |-> "<p b=c\\>", kind |-> "junk", name |-> "p",
   chars |-> <<"<","p"," ","b","=","c","\\",">">>],
  [id |-> "<b />", kind |-> "void", name |-> "b",
   chars |-> <<"<","b"," ","/",">">>],
  [id |-> "alert(\"<p>\")", kind |-> "text", name |-> "",
   chars |-> <<"a","l","e","r","t","(","\"","<","p",">","\"",")">>],
  [id |-> "<input type=\"text\" value=\"testing...\" />", kind |-> "void", name |-> "input",
   chars |-> <<"<","i","n","p","u","t"," ","t","y","p","e","=","\"","t","e","x","t","\""," ","v","a","l","u","e","=","\"","t","e","s","t","i","n","g",".",".",".","\""," ","/",">">>]
>>

PieceIds == {Pieces[i].id : i \in DOMAIN Pieces}
Piece(id) == Pieces[CHOOSE i \in DOMAIN Pieces : Pieces[i].id = id]

\* HTMLBuilder.get: the delimiter between two nodes when spacing is on
Delimiter == <<"\n", "\t", " ">>

RECURSIVE Join(_, _)
\* HTMLSegmentBuilder.html (spacing off), HTMLBuilder.get(spacing)
Join(doc, spacing) ==
  IF doc = <<>> THEN <<>>
  ELSE IF Len(doc) = 1 THEN Piece(doc[1]).chars
  ELSE Piece(doc[1]).chars \o (IF spacing THEN Delimiter ELSE <<>>)
       \o Join(Tail(doc), spacing)

\* the sequences over S of length at most n
SeqsUpTo(S, n) == UNION {[1..k -> S] : k \in 0..n}

----------------------------------------------------------------------------
(* HTMLDocument: nodes and the linking pass                                *)

\* HTMLDocument._voidTags
voidTags == {"!doctype", "area", "base", "br", "col", "embed", "hr", "img",
             "input", "link", "meta", "source", "track", "wbr"}

\* A node of the tree; nodes are numbered in the order of their creation,
\* parent = 0 is "parent is None", children lists hold node numbers.
HTMLElementNode(parent, attributes, name) ==
  [kind |-> "element", name |-> name, attributes |-> attributes, text |-> "",
   parent |-> parent, children |-> <<>>]
HTMLTextNode(parent, text) ==
  [kind |-> "text", name |-> "", attributes |-> <<>>, text |-> text,
   parent |-> parent, children |-> <<>>]
HTMLCommentNode(parent, comment) ==
  [kind |-> "comment", name |-> "", attributes |-> <<>>, text |-> comment,
   parent |-> parent, children |-> <<>>]

\* a _createNode that leaves the parent of every node unset
createNodeOrphan(segment, parent) ==
  IF segment.kind = "element" THEN HTMLElementNode(0, segment.attributes, segment.name)
  ELSE IF segment.kind = "text" THEN HTMLTextNode(0, segment.text)
  ELSE HTMLCommentNode(0, segment.comment)

\* _createNode, for the segments the two passes hand to it
createNode(segment, parent) ==
  IF segment.kind = "element" THEN HTMLElementNode(parent, segment.attributes, segment.name)
  ELSE IF segment.kind = "text" THEN HTMLTextNode(parent, segment.text)
  ELSE HTMLCommentNode(parent, segment.comment)

\* a child pass that puts every node first in the children list
appendChildFirst(ns, parent, node) ==
  [Append(ns, node) EXCEPT ![parent].children = <<Len(ns) + 1>> \o @]

\* parent.children.append(node), with the node stored under the next number
appendChild(ns, parent, node) ==
  [Append(ns, node) EXCEPT ![parent].children = Append(@, Len(ns) + 1)]

\* a builder that starts a child pass for every tag that is not self-closed
seeksChildrenOfVoid(segment) == ~segment.close

\* a builder that starts no child pass
seeksNoChildren(segment) == FALSE

\* whether a child pass is started for the element of an open segment
seeksChildren(segment) == ~segment.close /\ segment.name \notin voidTags

\* a loop of _linkNodes that accepts every index in either mode
linkScanAnywhere(ns, list, strictMode, name, indexes) ==
  LET hits == {i \in DOMAIN list :
                 /\ ns[list[i]].kind = "element"
                 /\ ns[list[i]].name = name}
  IN IF hits = {} THEN 0
     ELSE list[CHOOSE i \in hits : \A j \in hits : j <= i]

\* one loop of _linkNodes over list: every element of that name at an accepted
\* index is assigned in turn, so the last assignment stays; 0 is None
linkScan(ns, list, strictMode, name, indexes) ==
  LET hits == {i \in DOMAIN list :
                 /\ ns[list[i]].kind = "element"
                 /\ ns[list[i]].name = name
                 /\ ((i - 1) \in indexes \/ ~strictMode)}
  IN IF hits = {} THEN 0
     ELSE list[CHOOSE i \in hits : \A j \in hits : j <= i]

\* a linking pass that accepts body only as the first child of html
linkNodesBodyFirst(ns, list, strictMode) ==
  LET htmlNode == linkScan(ns, list, strictMode, "html", {0, 1}) IN
  [doctype |-> linkScan(ns, list, strictMode, "!doctype", {0}),
   html |-> htmlNode,
   head |-> IF htmlNode = 0 THEN 0
            ELSE linkScan(ns, ns[htmlNode].children, strictMode, "head", {0}),
   body |-> IF htmlNode = 0 THEN 0
            ELSE linkScan(ns, ns[htmlNode].children, strictMode, "body", {0})]

\* _linkNodes: the shortcuts doctype, html, head and body
linkNodes(ns, list, strictMode) ==
  LET htmlNode == linkScan(ns, list, strictMode, "html", {0, 1}) IN
  [doctype |-> linkScan(ns, list, strictMode, "!doctype", {0}),
   html |-> htmlNode,
   head |-> IF htmlNode = 0 THEN 0
            ELSE linkScan(ns, ns[htmlNode].children, strictMode, "head", {0}),
   body |-> IF htmlNode = 0 THEN 0
            ELSE linkScan(ns, ns[htmlNode].children, strictMode, "body", {0, 1})]

\* HTMLDocument._neverSelfClosing
neverSelfClosing == {"script", "style", "html", "head", "body"}

\* the characters of a string
charsOf(s) == [i \in 1..Len(s) |-> SubSeq(s, i, i)]

\* writeNode: the name of an element as it is written
writeName(name) ==
  IF name = "!doctype" THEN upper(charsOf(name)) ELSE charsOf(name)

RECURSIVE writeAttributes(_, _)
\* writeNode: the loop over node.attributes.items()
writeAttributes(name, attributes) ==
  IF attributes = <<>> THEN <<>>
  ELSE (IF name = "!doctype" /\ Head(attributes)[2] = "true"
          THEN <<" ">> \o charsOf(Head(attributes)[1])
          ELSE <<" ">> \o charsOf(Head(attributes)[1]) \o <<"=", "\"">>
               \o charsOf(Head(attributes)[2]) \o <<"\"">>)
       \o writeAttributes(name, Tail(attributes))

\* a writer that goes by the option and the children alone
writtenAsOneTagAnyName(node, sc) ==
  node.name \in voidTags \/ (sc /\ Len(node.children) = 0)

\* writeNode: whether an element is written as a single tag; sc is the
\* selfClosing option
writtenAsOneTag(node, sc) ==
  /\ node.name \notin neverSelfClosing
  /\ node.name \in voidTags \/ (sc /\ Len(node.children) = 0)

\* writeNode: the single tag of an element; void names get no "/"
writeOneTag(node) ==
  <<"<">> \o writeName(node.name) \o writeAttributes(node.name, node.attributes)
  \o (IF node.name \notin voidTags
        THEN (IF Len(node.attributes) > 0 THEN <<" ">> ELSE <<>>) \o <<"/">>
        ELSE <<>>)
  \o <<">">>

\* HTMLTextNode.html, HTMLCommentNode.html
nodeHtml(node) ==
  IF node.kind = "text" THEN charsOf(node.text)
  ELSE <<"<", "!", "-", "-", " ">> \o charsOf(node.text) \o <<" ", "-", "-", ">">>

RECURSIVE writeNode(_, _, _)
\* writeNode(document, nodeList, ...) with pretty and shrinkText off and the
\* selfClosing option sc: the nodes of list, one after the other
writeNode(ns, list, sc) ==
  IF list = <<>> THEN <<>>
  ELSE (IF ns[Head(list)].kind # "element" THEN nodeHtml(ns[Head(list)])
        ELSE IF writtenAsOneTag(ns[Head(list)], sc) THEN writeOneTag(ns[Head(list)])
        ELSE <<"<">> \o writeName(ns[Head(list)].name)
             \o writeAttributes(ns[Head(list)].name, ns[Head(list)].attributes)
             \o <<">">> \o writeNode(ns, ns[Head(list)].children, sc)
             \o <<"<", "/">> \o charsOf(ns[Head(list)].name) \o <<">">>)
       \o writeNode(ns, Tail(list), sc)

\* HTMLDocument.write(pretty=False, selfClosing=sc, shrinkText=False)
write(ns, list, sc) == writeNode(ns, list, sc)

RECURSIVE splitFrom(_, _, _)
\* str.split(sep) for a separator of one character: the pieces between the
\* separators, empty ones included; token is the piece being read
splitFrom(t, sep, token) ==
  IF t = <<>> THEN <<token>>
  ELSE IF Head(t) = sep THEN <<token>> \o splitFrom(Tail(t), sep, <<>>)
  ELSE splitFrom(Tail(t), sep, Append(token, Head(t)))
split(t, sep) == splitFrom(t, sep, <<>>)

\* node.attributes["class"], for a node that has the key
classOf(node) ==
  node.attributes[CHOOSE i \in DOMAIN node.attributes :
                    node.attributes[i][1] = "class"][2]

\* HTMLElementNode.hasClass(className)
hasClass(node, className) ==
  IF HasKey(node.attributes, "class")
    THEN charsOf(className) \in Range(split(charsOf(classOf(node)), " "))
    ELSE FALSE

\* the state of a search: the results list and the nodes the filter was
\* called on, in order, and the value searchRecursive returned
SearchState(results, visited, go) ==
  [results |-> results, visited |-> visited, go |-> go]

\* searchRecursive: filter(node), results.append(node) and the test of the cap
checkNode(acc, node, hit, maxResults) ==
  SearchState(IF hit THEN Append(acc.results, node) ELSE acc.results,
              Append(acc.visited, node),
              ~(hit /\ maxResults # None /\ Len(acc.results) + 1 >= maxResults))

\* a search that goes one generation further
descendsFurther(node, depthRemaining) ==
  node.kind = "element" /\ (depthRemaining = None \/ depthRemaining >= 0)

\* searchRecursive: whether the children of node are searched, by
\* (depthRemaining := depthRemaining - 1) >= 0
descends(node, depthRemaining) ==
  node.kind = "element" /\ (depthRemaining = None \/ depthRemaining - 1 >= 0)

\* depthRemaining as the children get it
childDepth(depthRemaining) ==
  IF depthRemaining = None THEN None ELSE depthRemaining - 1

RECURSIVE searchRecursive(_, _, _, _, _, _)
RECURSIVE searchChildren(_, _, _, _, _, _)
\* the loop over node.children after a child gave r: "if not
\* searchRecursive(...): return False"
searchRest(ns, r, rest, matching, depthRemaining, maxResults) ==
  IF ~r.go THEN r
  ELSE searchChildren(ns, r, rest, matching, depthRemaining, maxResults)

\* the loop over node.children
searchChildren(ns, acc, list, matching, depthRemaining, maxResults) ==
  IF list = <<>> THEN acc
  ELSE searchRest(ns,
                  searchRecursive(ns, acc, Head(list), matching, depthRemaining,
                                  maxResults),
                  Tail(list), matching, depthRemaining, maxResults)

\* searchRecursive after the filter was called on node and gave r
searchBelow(ns, r, node, matching, depthRemaining, maxResults) ==
  IF ~r.go THEN r
  ELSE IF descends(ns[node], depthRemaining)
    THEN searchChildren(ns, r, ns[node].children, matching,
                        childDepth(depthRemaining), maxResults)
  ELSE r

\* searchRecursive(results, node, filter, depthRemaining, maxResults); the
\* filter is the set of the nodes it is true of
searchRecursive(ns, acc, node, matching, depthRemaining, maxResults) ==
  searchBelow(ns, checkNode(acc, node, node \in matching, maxResults), node,
              matching, depthRemaining, maxResults)

\* HTMLElementNode.search(filter, maxDepth, maxResults) on node start
search(ns, start, matching, maxDepth, maxResults) ==
  searchRecursive(ns, SearchState(<<>>, <<>>, TRUE), start, matching, maxDepth,
                  maxResults)

\* no search has been asked for
noQuery == [start |-> 0, matching |-> {}, maxDepth |-> None, maxResults |-> None,
            results |-> <<>>, visited |-> <<>>, done |-> FALSE]

\* no tree has been written yet
noTree == [nodes |-> <<>>, rootList |-> <<>>, written |-> FALSE]

\* HTMLDocument.__init__: no shortcut is set
noLinks == [doctype |-> 0, html |-> 0, head |-> 0, body |-> 0]

----------------------------------------------------------------------------
(* State                                                                   *)

VARIABLES
  doc,       \* the segments the source text was assembled from
  spacing,   \* whether the segments were joined with the delimiter
  html,      \* HTMLParser._html, HTMLDocument._text
  strict,    \* HTMLParser._strict, HTMLDocument._strict
  comments,  \* HTMLDocument._comments
  parser,    \* HTMLParser: _position, _segmentCurrent, _segmentNext
  out,       \* the segments next() has returned so far, in order
  pc,        \* "iter": iterating the tokenizer; "root": in the loop of _load;
             \* "child": in the loop of the innermost _loadChildren call;
             \* "ended": next() was called again after the end;
             \* "return": that call has returned response; "end": the
             \* iteration stopped; "done": _load returned; "failed": an
             \* exception left next() or _load; "search": the program
             \* holds a tree and queries it
  error,     \* the exception that was raised, "" if none
  stack,     \* the running _loadChildren calls, innermost last: the parent
             \* node and the caller's open segment that created it
  nodes,     \* the nodes created so far
  rootList,  \* HTMLDocument._rootList
  response,  \* the value the innermost _loadChildren call returned
  links,     \* HTMLDocument._doctype, _html, _head, _body
  selfClosing, \* the selfClosing option of write, on by default
  query,     \* a call of search on a node of the tree: its arguments, the nodes
             \* the filter was called on and the list returned
  first      \* the tree of the document that was written to give html, noTree
             \* while html is the source text assembled from doc

vars == <<doc, spacing, html, strict, comments, parser, out, pc, error, stack,
          nodes, rootList, response, links, selfClosing, query, first>>

source == <<doc, spacing, html, strict, comments, selfClosing, query, first>>
tree == <<stack, nodes, rootList, response, links>>

\* bounds of the source texts: the number of segments they are assembled from
MaxSegments == 4
MaxTags == 5
MaxSelfClosed == 4
MaxCommented == 4
MaxMalformed == 3
MaxLinked == 5
MaxRewritten == 4
MaxAttributed == 3
MaxClosed == 3
MaxCased == 4
MaxDoctyped == 3
\* bounds of the class attribute and of the class name asked for
MaxClassLen == 3
MaxClassName == 2
\* bounds of the trees that are searched and of the limits given to search
MaxStrictTags == 3
MaxLive == 3
MaxModes == 3
MaxNodes == 4
MaxDepth == 2
MaxResults == 2

\* the segments of the tokenizer's source texts
TokPieces == {"<a>", "</a>", "<br b=\"c\" />", "x", "<!-- c -->", "<script>",
              "</script>", "<"}
\* the document of tests/test_parser.py
TestDoc ==
  <<"<!DOCTYPE html>", "<html>", "<head>", "<title>", "Testing...", "</title>",
    "<script>", "alert(\"<p>\")", "</script>", "</head>", "<body>",
    "<input type=\"text\" value=\"testing...\" />", "</body>", "</html>">>

\* the segments of the tree builder's source texts
BuildPieces == {"<p>", "</p>", "<b>", "</b>", "x", "<br>"}
\* the segments of the source texts with a self-closed tag of a name that is
\* not in the void set
SelfClosedPieces == {"<p>", "</p>", "<b />", "x"}
\* the segments of the source texts with comments
CommentPieces == {"<p>", "</p>", "<!-- c -->", "x"}
\* tags with a grammar violation: whitespace before the name, a duplicate
\* attribute name, a quoted attribute name, an unquoted attribute value, a
\* close tag with an attribute
MalformedTags == {"< p>", "<p b=\"c\" b=\"c\">", "<p \"b\"=\"c\">", "<p b=c>",
                  "</p b=\"c\">"}
\* the segments of the source texts with such tags
MalformedPieces == MalformedTags \cup {"<p>", "</p>"}
\* the segments of the source texts with the elements that get a shortcut
LinkPieces == {"<!DOCTYPE html>", "<html>", "</html>", "<head />", "<body />"}
\* tags with attributes: a quoted value holding the other quote, a quoted name
\* holding a space, an unquoted value ending in a backslash, a plain pair
AttributePieces == {"<p b='c\"d'>", "<p 'b c'='d'>", "<p b=c\\>",
                    "<br b=\"c\" />", "x", "</p>"}
\* elements that are never written self-closed, with and without children,
\* next to a void element and a self-closed one
ClosedPieces == {"<html>", "</html>", "<head />", "<script>", "</script>",
                 "<br>", "<b />", "x"}
\* tags in upper and in lower case, and an attribute name in upper case
CasePieces == {"<P>", "</P>", "<p>", "</p>", "<p ID=\"a\">", "x"}
RawCasePieces == {"<SCRIPT>", "</SCRIPT>", "<script>", "</script>", "x"}
\* the doctype tag in three casings
DoctypeTags == {"<!DOCTYPE html>", "<!doctype html>", "<!DocType html>"}
DoctypePieces == DoctypeTags \cup {"<p>", "</p>"}
\* tags that the strict grammar rejects: whitespace after "<", after "</" and
\* after the self-closing "/", and the four violations of MalformedTags
StrictRejected == MalformedTags \cup {"</ p>", "<br/ >"}
\* tags with whitespace after the tag name and before the self-closing "/"
SpacedAfterName == {"<p >", "<b />", "<br b=\"c\" />"}
StrictPieces == StrictRejected \cup SpacedAfterName \cup {"<p>", "x"}
\* the segments of the source texts that are built in both modes: tags that
\* only the lenient grammar reads as tags, next to tags of both grammars
ModePieces == {"< p>", "<p b=c>", "</ p>", "<p>", "</p>", "x", "<!-- c -->"}
\* the documented scenarios
ParagraphDoc == <<"<p>", "A", "<b>", "B", "</p>">>
PageDoc ==
  <<"<!DOCTYPE html>", "<html>", "<head>", "<title>", "Hi", "</title>", "</head>",
    "<body>", "<input type=\"text\" />", "</body>", "</html>">>
DivDoc == <<"<div>", "<p>", "<b>", "x", "</p>", "y", "</div>">>
\* source texts with a raw-text element and with a comment
ScriptDoc == <<"<script>", "<b>", "</b>", "</script>">>
ScriptTextDoc == <<"<script>", "x", "</script>">>
CommentDoc == <<"<p>", "<!-- c -->", "</p>">>
\* a void tag and a self-closed tag, each with text right after it
VoidDoc == <<"<p>", "<b />", "x", "<br>", "y", "</p>">>
ScenarioDocs == {ParagraphDoc, PageDoc, DivDoc, ScriptDoc, ScriptTextDoc, CommentDoc,
                 VoidDoc}

hasComment(d) == \E i \in DOMAIN d : Piece(d[i]).kind = "comment"

InitCommon ==
  /\ html = Join(doc, spacing)
  /\ parser = newParser
  /\ out = <<>>
  /\ error = ""
  /\ stack = <<>>
  /\ nodes = <<>>
  /\ rootList = <<>>
  /\ response = NoSegment
  /\ links = noLinks
  /\ selfClosing = TRUE
  /\ query = noQuery
  /\ first = noTree

\* parser = HTMLParser(html, strict), about to be iterated
InitIter ==
  /\ doc \in SeqsUpTo(TokPieces, MaxSegments) \cup {TestDoc}
  /\ spacing \in BOOLEAN
  /\ strict \in BOOLEAN
  /\ comments = FALSE
  /\ pc = "iter"
  /\ InitCommon

\* HTMLDocument(html, strict, comments), about to call _load; comments is read
\* only when a comment segment arrives, so it is off for texts without comments
Init ==
  /\ doc \in SeqsUpTo(BuildPieces, MaxTags)
            \cup SeqsUpTo(SelfClosedPieces, MaxSelfClosed)
            \cup SeqsUpTo(CommentPieces, MaxCommented)
            \cup SeqsUpTo(MalformedPieces, MaxMalformed)
            \cup SeqsUpTo(LinkPieces, MaxLinked) \cup ScenarioDocs
  /\ spacing = FALSE
  /\ strict \in BOOLEAN
  /\ comments \in (IF hasComment(doc) THEN BOOLEAN ELSE {FALSE})
  /\ pc = "root"
  /\ InitCommon

\* the trees of n nodes by the parent of each node; node 1 is the root and
\* every other node comes after its parent
Parents(n) ==
  {p \in [1..n -> 0..(n - 1)] : p[1] = 0 /\ \A i \in 2..n : p[i] >= 1 /\ p[i] < i}
childrenOf(p, i) == SelectSeq([j \in DOMAIN p |-> j], LAMBDA j : p[j] = i)
\* elements and text nodes: the root is an element, a text node has no children
Kinds(p) ==
  {k \in [DOMAIN p -> {"element", "text"}] :
     k[1] = "element" /\ \A i \in DOMAIN p : k[i] = "text" => childrenOf(p, i) = <<>>}
\* HTMLElementNode(parent, children, None, "p") and HTMLTextNode(parent, "x")
treeOf(p, k) ==
  [i \in DOMAIN p |->
     IF k[i] = "text" THEN HTMLTextNode(p[i], "x")
     ELSE [HTMLElementNode(p[i], <<>>, "p") EXCEPT !.children = childrenOf(p, i)]]
Trees ==
  UNION {{treeOf(p, k) : k \in Kinds(p)} :
           p \in UNION {Parents(n) : n \in 1..MaxNodes}}
Limits(n) == {None} \cup 0..n

\* a tree of element and text nodes and the arguments of a search on one of
\* its elements
InitSearch ==
  /\ nodes \in Trees
  /\ rootList = <<1>>
  /\ query \in {q \in [start : DOMAIN nodes, matching : SUBSET DOMAIN nodes,
                        maxDepth : Limits(MaxDepth), maxResults : Limits(MaxResults),
                        results : {<<>>}, visited : {<<>>}, done : {FALSE}] :
                   nodes[q.start].kind = "element"}
  /\ doc = <<>>
  /\ spacing = FALSE
  /\ html = <<>>
  /\ strict = FALSE
  /\ comments = FALSE
  /\ parser = newParser
  /\ out = <<>>
  /\ pc = "search"
  /\ error = ""
  /\ stack = <<>>
  /\ response = NoSegment
  /\ links = noLinks
  /\ selfClosing = TRUE
  /\ first = noTree

\* HTMLDocument(html, strict) for a source text with tags in mixed case
InitCased ==
  /\ doc \in SeqsUpTo(CasePieces, MaxCased) \cup SeqsUpTo(RawCasePieces, MaxCased)
            \cup SeqsUpTo(DoctypePieces, MaxDoctyped)
  /\ spacing = FALSE
  /\ strict \in BOOLEAN
  /\ comments = FALSE
  /\ pc = "root"
  /\ InitCommon

\* parser = HTMLParser(html, True) for a source text with tags that break the
\* strict grammar, about to be iterated
InitStrict ==
  /\ doc \in SeqsUpTo(StrictPieces, MaxStrictTags)
  /\ spacing \in BOOLEAN
  /\ strict = TRUE
  /\ comments = FALSE
  /\ pc = "iter"
  /\ InitCommon

\* a parser about to be iterated or a document about to be built, for the
\* same source texts
InitLive ==
  /\ doc \in SeqsUpTo(TokPieces, MaxLive)
  /\ spacing \in BOOLEAN
  /\ strict \in BOOLEAN
  /\ pc \in {"iter", "root"}
  /\ comments \in (IF pc = "root" /\ hasComment(doc) THEN BOOLEAN ELSE {FALSE})
  /\ InitCommon

\* the values of a class attribute and the class names asked for
ClassValues == {Str(v) : v \in SeqsUpTo({"a", "b", " ", "\t", "\n"}, MaxClassLen)}
ClassNames == {Str(c) : c \in SeqsUpTo({"a", "b"}, MaxClassName)}
ClassAttributes == {<<>>} \cup {<<<<"class", v>>>> : v \in ClassValues}

\* an element with or without a class attribute and a class name to ask for
InitClass ==
  /\ nodes \in {<<HTMLElementNode(0, a, "p")>> : a \in ClassAttributes}
  /\ rootList = <<1>>
  /\ query \in [start : {1}, className : ClassNames, answer : {FALSE}, done : {FALSE}]
  /\ doc = <<>>
  /\ spacing = FALSE
  /\ html = <<>>
  /\ strict = FALSE
  /\ comments = FALSE
  /\ parser = newParser
  /\ out = <<>>
  /\ pc = "search"
  /\ error = ""
  /\ stack = <<>>
  /\ response = NoSegment
  /\ links = noLinks
  /\ selfClosing = TRUE
  /\ first = noTree

\* HTMLDocument(html, True, comments) for a source text that is built again
\* with HTMLDocument(html, False, comments)
InitModes ==
  /\ doc \in SeqsUpTo(ModePieces, MaxModes)
  /\ spacing = FALSE
  /\ strict = TRUE
  /\ comments \in (IF hasComment(doc) THEN BOOLEAN ELSE {FALSE})
  /\ pc = "root"
  /\ InitCommon

\* HTMLDocument(html, strict, comments) for a document that is written after
\* the build
InitWrite ==
  /\ doc \in SeqsUpTo(BuildPieces, MaxRewritten)
            \cup SeqsUpTo(SelfClosedPieces, MaxSelfClosed)
            \cup SeqsUpTo(CommentPieces, MaxCommented)
            \cup SeqsUpTo(MalformedPieces, MaxMalformed)
            \cup SeqsUpTo(AttributePieces, MaxAttributed)
            \cup SeqsUpTo(ClosedPieces, MaxClosed) \cup ScenarioDocs
  /\ spacing = FALSE
  /\ strict \in BOOLEAN
  /\ comments \in (IF hasComment(doc) THEN BOOLEAN ELSE {FALSE})
  /\ pc = "root"
  /\ InitCommon

----------------------------------------------------------------------------
(* Operations                                                              *)

\* the call parser.next() of the running loop
Call == next(html, strict, parser)

\* an exception leaves next(): it ends the iteration or the build
Raised(r) ==
  /\ pc' = "failed"
  /\ error' = IF r.outcome = "indexerror" THEN "IndexError" ELSE "CouldNotRead"
  /\ parser' = r.parser
  /\ UNCHANGED <<out, tree>>

\* an exception raised by _load or _loadChildren after next() returned
Fail(r, e) ==
  /\ pc' = "failed"
  /\ error' = e
  /\ parser' = r.parser
  /\ out' = IF r.outcome = "segment" THEN Append(out, r.segment) ELSE out

\* one round of "for segment in parser" (__next__)
Iterate ==
  /\ pc = "iter"
  /\ \E r \in {Call} :
     \/ /\ r.outcome = "segment"
        /\ parser' = r.parser
        /\ out' = Append(out, r.segment)
        /\ UNCHANGED <<pc, error, tree>>
     \/ /\ r.outcome = "none"
        /\ parser' = r.parser
        /\ pc' = "end"
        /\ UNCHANGED <<out, error, tree>>
     \/ /\ r.outcome \in {"raise", "indexerror"}
        /\ Raised(r)
  /\ UNCHANGED source

\* parser.next() called again after it returned None
IterateAgain ==
  /\ pc \in {"end", "ended"}
  /\ \E r \in {Call} :
       IF r.outcome = "segment"
         THEN /\ parser' = r.parser
              /\ out' = Append(out, r.segment)
              /\ pc' = "iter"
              /\ UNCHANGED <<error, tree>>
       ELSE IF r.outcome = "none"
         THEN /\ parser' = r.parser
              /\ pc' = "ended"
              /\ UNCHANGED <<out, error, tree>>
       ELSE Raised(r)
  /\ UNCHANGED source

\* a root pass that raises for no close tag
raisesAtRootCloseNever(strictMode) == FALSE

\* "A closing tag was found at the root level": whether _load raises
raisesAtRootClose(strictMode) == strictMode

\* one round of the while loop of _load
RootSegment ==
  /\ pc = "root"
  /\ \E r \in {Call} : LET
         segment == r.segment
         node == Len(nodes) + 1
     IN
     \/ /\ r.outcome = "none"
        /\ parser' = r.parser
        /\ links' = linkNodes(nodes, rootList, strict)
        /\ pc' = "done"
        /\ UNCHANGED <<out, error, stack, nodes, rootList, response>>
     \/ /\ r.outcome \in {"raise", "indexerror"}
        /\ Raised(r)
     \/ /\ r.outcome = "segment"
        /\ segment.kind = "element"
        /\ segment.open
        /\ parser' = r.parser
        /\ out' = Append(out, segment)
        /\ nodes' = Append(nodes, createNode(segment, 0))
        /\ rootList' = Append(rootList, node)
        /\ IF seeksChildren(segment)
             THEN /\ stack' = <<[parent |-> node, segment |-> segment]>>
                  /\ pc' = "child"
             ELSE UNCHANGED <<stack, pc>>
        /\ UNCHANGED <<error, response, links>>
     \/ /\ r.outcome = "segment"
        /\ segment.kind = "element"
        /\ ~segment.open
        /\ IF raisesAtRootClose(strict)
             THEN Fail(r, "CloseAtRoot") /\ UNCHANGED tree
             ELSE /\ parser' = r.parser
                  /\ out' = Append(out, segment)
                  /\ UNCHANGED <<pc, error, tree>>
     \/ /\ r.outcome = "segment"
        /\ \/ segment.kind = "text"
           \/ segment.kind = "comment" /\ comments
        /\ parser' = r.parser
        /\ out' = Append(out, segment)
        /\ nodes' = Append(nodes, createNode(segment, 0))
        /\ rootList' = Append(rootList, node)
        /\ UNCHANGED <<pc, error, stack, response, links>>
     \/ /\ r.outcome = "segment"
        /\ segment.kind = "comment"
        /\ ~comments
        /\ Fail(r, "UnknownNodeType")
        /\ UNCHANGED tree
  /\ UNCHANGED source

\* a child pass that hands every close segment up
closeResponseUnresolved(segment, parentName) == segment

\* the value _loadChildren returns for a close segment it meets in its loop
closeResponse(segment, parentName) ==
  IF segment.name = parentName THEN NoSegment ELSE segment

\* a child pass that raises at the end of the input in either mode
raisesAtEndAlways(strictMode) == TRUE

\* "we prematurely ran out of html": whether _loadChildren raises
raisesAtEnd(strictMode) == strictMode

\* one round of the while loop of the innermost _loadChildren call
ChildSegment ==
  /\ pc = "child"
  /\ \E r \in {Call} : LET
         segment == r.segment
         parent == stack[Len(stack)].parent
         node == Len(nodes) + 1
     IN
     \/ /\ r.outcome = "none"
        /\ IF raisesAtEnd(strict)
             THEN Fail(r, "EndedBeforeClosed") /\ UNCHANGED tree
             ELSE /\ parser' = r.parser
                  /\ response' = NoSegment
                  /\ pc' = "return"
                  /\ UNCHANGED <<out, error, stack, nodes, rootList, links>>
     \/ /\ r.outcome \in {"raise", "indexerror"}
        /\ Raised(r)
     \/ /\ r.outcome = "segment"
        /\ segment.kind = "element"
        /\ segment.open
        /\ parser' = r.parser
        /\ out' = Append(out, segment)
        /\ nodes' = appendChild(nodes, parent, createNode(segment, parent))
        /\ IF seeksChildren(segment)
             THEN /\ stack' = Append(stack, [parent |-> node, segment |-> segment])
                  /\ UNCHANGED pc
             ELSE UNCHANGED <<stack, pc>>
        /\ UNCHANGED <<error, rootList, response, links>>
     \/ /\ r.outcome = "segment"
        /\ segment.kind = "element"
        /\ ~segment.open
        /\ segment.close
        /\ parser' = r.parser
        /\ out' = Append(out, segment)
        /\ response' = closeResponse(segment, nodes[parent].name)
        /\ pc' = "return"
        /\ UNCHANGED <<error, stack, nodes, rootList, links>>
     \/ /\ r.outcome = "segment"
        /\ segment.kind = "element"
        /\ ~segment.open
        /\ ~segment.close
        /\ IF strict
             THEN Fail(r, "UnidentifiedTag") /\ UNCHANGED tree
             ELSE /\ parser' = r.parser
                  /\ out' = Append(out, segment)
                  /\ UNCHANGED <<pc, error, tree>>
     \/ /\ r.outcome = "segment"
        /\ \/ segment.kind = "text"
           \/ segment.kind = "comment" /\ comments
        /\ parser' = r.parser
        /\ out' = Append(out, segment)
        /\ nodes' = appendChild(nodes, parent, createNode(segment, parent))
        /\ UNCHANGED <<pc, error, stack, rootList, response, links>>
     \/ /\ r.outcome = "segment"
        /\ segment.kind = "comment"
        /\ ~comments
        /\ parser' = r.parser
        /\ out' = Append(out, segment)
        /\ UNCHANGED <<pc, error, tree>>
  /\ UNCHANGED source

\* what a _loadChildren call does with the response of the recursive call it
\* made for the open segment `segment`: None to go on with its loop, else the
\* value it returns itself ("resolved" is the None it returns on a match)
passUp(resp, segment, parentName) ==
  IF resp.kind = "none" THEN [returns |-> FALSE, value |-> NoSegment]
  ELSE IF segment.name = parentName THEN [returns |-> TRUE, value |-> NoSegment]
  ELSE [returns |-> TRUE, value |-> segment]

\* the innermost _loadChildren call returns to the _loadChildren call that made it
ChildReturn ==
  /\ pc = "return"
  /\ Len(stack) >= 2
  /\ LET callee == stack[Len(stack)]
         caller == stack[Len(stack) - 1]
         up == passUp(response, callee.segment, nodes[caller.parent].name)
     IN
     /\ stack' = SubSeq(stack, 1, Len(stack) - 1)
     /\ response' = up.value
     /\ pc' = IF up.returns THEN "return" ELSE "child"
  /\ UNCHANGED <<source, parser, out, error, nodes, rootList, links>>

\* the outermost _loadChildren call returns to _load
RootReturn ==
  /\ pc = "return"
  /\ Len(stack) = 1
  /\ stack' = <<>>
  /\ IF response.kind # "none" /\ strict
       THEN pc' = "failed" /\ error' = "NoMatchingOpen"
       ELSE pc' = "root" /\ UNCHANGED error
  /\ UNCHANGED <<source, parser, out, nodes, rootList, response, links>>

\* document.write(pretty=False, selfClosing=sc, shrinkText=False) of the built
\* document, and HTMLDocument(text, strict, comments) for the text written,
\* about to call _load
WriteAndBuild ==
  /\ pc = "done"
  /\ first = noTree
  /\ first' = [nodes |-> nodes, rootList |-> rootList, written |-> TRUE]
  /\ \E sc \in BOOLEAN :
       /\ selfClosing' = sc
       /\ html' = write(nodes, rootList, sc)
  /\ parser' = newParser
  /\ out' = <<>>
  /\ nodes' = <<>>
  /\ rootList' = <<>>
  /\ response' = NoSegment
  /\ links' = noLinks
  /\ pc' = "root"
  /\ UNCHANGED <<doc, spacing, strict, comments, error, stack, query>>

\* HTMLDocument(html, False, comments) after HTMLDocument(html, True, comments)
\* has returned: the strict tree is kept in first
BuildLenient ==
  /\ pc = "done"
  /\ strict
  /\ first' = [nodes |-> nodes, rootList |-> rootList, written |-> FALSE]
  /\ strict' = FALSE
  /\ parser' = newParser
  /\ out' = <<>>
  /\ nodes' = <<>>
  /\ rootList' = <<>>
  /\ response' = NoSegment
  /\ links' = noLinks
  /\ pc' = "root"
  /\ UNCHANGED <<doc, spacing, html, comments, error, stack, selfClosing, query>>

\* results = query.start.search(filter, maxDepth, maxResults)
Search ==
  /\ pc = "search"
  /\ ~query.done
  /\ \E r \in {search(nodes, query.start, query.matching, query.maxDepth,
                       query.maxResults)} :
       query' = [query EXCEPT !.results = r.results, !.visited = r.visited,
                              !.done = TRUE]
  /\ UNCHANGED <<doc, spacing, html, strict, comments, parser, out, pc, error,
                 stack, nodes, rootList, response, links, selfClosing, first>>

\* answer = query.start.hasClass(className)
HasClass ==
  /\ pc = "search"
  /\ ~query.done
  /\ query' = [query EXCEPT !.answer = hasClass(nodes[query.start], query.className),
                            !.done = TRUE]
  /\ UNCHANGED <<doc, spacing, html, strict, comments, parser, out, pc, error,
                 stack, nodes, rootList, response, links, selfClosing, first>>

NextIter == Iterate
NextSearch == Search
NextAgain == Iterate \/ IterateAgain
NextLive == Iterate \/ RootSegment \/ ChildSegment \/ ChildReturn \/ RootReturn
NextClass == HasClass
Next == RootSegment \/ ChildSegment \/ ChildReturn \/ RootReturn
NextWrite == Next \/ WriteAndBuild
NextModes == Next \/ BuildLenient

\* iterating the tokenizer over a source text
SpecIter == InitIter /\ [][NextIter]_vars
\* iterating the tokenizer and calling next() again after the end
SpecAgain == InitIter /\ [][NextAgain]_vars
\* iterating the tokenizer over a source text, or building a document from it
SpecLive == InitLive /\ [][NextLive]_vars
\* iterating the strict tokenizer over a source text with rejected tags
SpecStrict == InitStrict /\ [][NextIter]_vars
\* building a document from a source text
Spec == Init /\ [][Next]_vars
\* building a document, writing it and building the text written
SpecWrite == InitWrite /\ [][NextWrite]_vars
\* building a document in strict mode and then in lenient mode
SpecModes == InitModes /\ [][NextModes]_vars
\* building a document from a source text with tags in mixed case
SpecCased == InitCased /\ [][Next]_vars
\* asking an element for a class
SpecClass == InitClass /\ [][NextClass]_vars
\* searching a tree
SpecSearch == InitSearch /\ [][NextSearch]_vars

----------------------------------------------------------------------------
(* The tree a source text stands for                                       *)

\* the segments a text d is assembled from, by kind
noSegmentOfKind(d, kinds) == \A i \in DOMAIN d : Piece(d[i]).kind \notin kinds
opensElement(piece) == piece.kind = "open" /\ piece.name \notin voidTags
lastIsNoText(d) == d = <<>> \/ Piece(d[Len(d)]).kind # "text"

RECURSIVE nestScan(_, _, _)
\* d[i..] closes the open elements `open` (names, innermost last) and its own,
\* every close tag closing the innermost open element
nestScan(d, i, open) ==
  IF i > Len(d) THEN open = <<>>
  ELSE IF opensElement(Piece(d[i]))
    THEN nestScan(d, i + 1, Append(open, Piece(d[i]).name))
  ELSE IF Piece(d[i]).kind = "close"
    THEN /\ open # <<>>
         /\ open[Len(open)] = Piece(d[i]).name
         /\ nestScan(d, i + 1, SubSeq(open, 1, Len(open) - 1))
  ELSE nestScan(d, i + 1, open)

ProperlyNested(d) == nestScan(d, 1, <<>>)

\* every raw-text element (script, style, block) holds text only
RECURSIVE textUntilClose(_, _, _)
textUntilClose(d, i, name) ==
  /\ i <= Len(d)
  /\ \/ Piece(d[i]).kind = "close" /\ Piece(d[i]).name = name
     \/ Piece(d[i]).kind = "text" /\ textUntilClose(d, i + 1, name)

RawContentIsText(d) ==
  \A i \in DOMAIN d :
    (Piece(d[i]).kind = "open" /\ Piece(d[i]).name \in contextSwitchTags)
      => textUntilClose(d, i + 1, Piece(d[i]).name)

noRawText(d) == \A i \in DOMAIN d : Piece(d[i]).name \notin contextSwitchTags

\* the nearest open element of that name: its index in `open`, 0 if none
nearestOpen(ns, open, name) ==
  LET hits == {k \in DOMAIN open : ns[open[k]].label = name} IN
  IF hits = {} THEN 0 ELSE CHOOSE k \in hits : \A j \in hits : j <= k

\* the node of a tag, of a text run or of a comment
plainNode(piece, parent) ==
  [kind |-> IF piece.kind \in {"text", "comment"} THEN piece.kind ELSE "element",
   label |-> IF piece.kind = "text" THEN Str(piece.chars)
             ELSE IF piece.kind = "comment"
               THEN Str(strip(Slice(piece.chars, 4, Len(piece.chars) - 3)))
             ELSE piece.name,
   parent |-> parent, children |-> <<>>]

attach(ns, parent, node) ==
  IF parent = 0 THEN Append(ns, node)
  ELSE [Append(ns, node) EXCEPT ![parent].children = Append(@, Len(ns) + 1)]

RECURSIVE plainLoad(_, _, _, _, _)
\* The tree of d[i..] read by the nesting of its tags: an open tag starts an
\* element under the innermost open element `open` (node numbers, innermost
\* last), a close tag closes the nearest open element of its name and
\* everything opened inside it, or is dropped when no open element has its
\* name; successive text segments are one text run; a comment is a node when
\* comments are kept and nothing otherwise.
plainLoad(d, i, ns, roots, open) ==
  IF i > Len(d) THEN [nodes |-> ns, rootList |-> roots]
  ELSE LET piece == Piece(d[i])
           parent == IF open = <<>> THEN 0 ELSE open[Len(open)]
           k == nearestOpen(ns, open, piece.name)
       IN
       IF piece.kind = "close"
         THEN plainLoad(d, i + 1, ns, roots,
                        IF k = 0 THEN open ELSE SubSeq(open, 1, k - 1))
       ELSE IF piece.kind = "comment" /\ ~comments
         THEN plainLoad(d, i + 1, ns, roots, open)
       ELSE IF piece.kind = "text" /\ i > 1 /\ Piece(d[i - 1]).kind = "text"
         THEN plainLoad(d, i + 1,
                        [ns EXCEPT ![Len(ns)].label = @ \o Str(piece.chars)],
                        roots, open)
       ELSE plainLoad(d, i + 1, attach(ns, parent, plainNode(piece, parent)),
                      IF parent = 0 THEN Append(roots, Len(ns) + 1) ELSE roots,
                      IF opensElement(piece) THEN Append(open, Len(ns) + 1) ELSE open)

plainTree(d) == plainLoad(d, 1, <<>>, <<>>, <<>>)

\* the tree that was built, in the same terms
builtTree ==
  [nodes |-> [i \in DOMAIN nodes |->
                [kind |-> nodes[i].kind,
                 label |-> IF nodes[i].kind = "element" THEN nodes[i].name
                           ELSE nodes[i].text,
                 parent |-> nodes[i].parent,
                 children |-> nodes[i].children]],
   rootList |-> rootList]

RECURSIVE strayScan(_, _, _)
\* d[i..] has a close tag of a name that no open element has, every close tag
\* before it closing the innermost open element
strayScan(d, i, open) ==
  /\ i <= Len(d)
  /\ IF opensElement(Piece(d[i]))
       THEN strayScan(d, i + 1, Append(open, Piece(d[i]).name))
     ELSE IF Piece(d[i]).kind = "close"
       THEN \/ \A k \in DOMAIN open : open[k] # Piece(d[i]).name
            \/ /\ open[Len(open)] = Piece(d[i]).name
               /\ strayScan(d, i + 1, SubSeq(open, 1, Len(open) - 1))
     ELSE strayScan(d, i + 1, open)

HasStrayClose(d) == strayScan(d, 1, <<>>)

RECURSIVE mismatchScan(_, _, _)
\* d[i..] has a close tag met inside an open element of another name
mismatchScan(d, i, open) ==
  /\ i <= Len(d)
  /\ IF opensElement(Piece(d[i]))
       THEN mismatchScan(d, i + 1, Append(open, Piece(d[i]).name))
     ELSE IF Piece(d[i]).kind = "close"
       THEN /\ open # <<>>
            /\ \/ open[Len(open)] # Piece(d[i]).name
               \/ mismatchScan(d, i + 1, SubSeq(open, 1, Len(open) - 1))
     ELSE mismatchScan(d, i + 1, open)

HasMismatchedClose(d) == mismatchScan(d, 1, <<>>)

RECURSIVE ancestorScan(_, _, _)
\* every close tag of d[i..] has an open element of its name, a close tag
\* closing the nearest one and everything opened inside it
ancestorScan(d, i, open) ==
  \/ i > Len(d)
  \/ /\ i <= Len(d)
     /\ IF opensElement(Piece(d[i]))
          THEN ancestorScan(d, i + 1, Append(open, Piece(d[i]).name))
        ELSE IF Piece(d[i]).kind = "close"
          THEN \E k \in DOMAIN open :
                 /\ open[k] = Piece(d[i]).name
                 /\ \A j \in DOMAIN open : j > k => open[j] # Piece(d[i]).name
                 /\ ancestorScan(d, i + 1, SubSeq(open, 1, k - 1))
        ELSE ancestorScan(d, i + 1, open)

EveryCloseHasOpen(d) == ancestorScan(d, 1, <<>>)

----------------------------------------------------------------------------
(* Properties of the tree builder (Spec)                                   *)

\* the inputs of C1: no comments, no text after the last tag, properly nested
ProperInput ==
  /\ noSegmentOfKind(doc, {"comment", "junk"})
  /\ lastIsNoText(doc)
  /\ ProperlyNested(doc)

\* C1 as stated: for every properly nested input without comments and without
\* text after its last tag the build fails in neither mode, and the tree it
\* returns has under each element exactly the elements and text runs between
\* its open and its close tag, in source order.
ProperInputBuilt ==
  /\ pc = "failed" => ~ProperInput
  /\ (pc = "done" /\ ProperInput) => builtTree = plainTree(doc)

\* C1: the same for the inputs in which every script, style and block element
\* holds text only; such an element's content is one text child, its markup
\* characters included.
ProperPlainInputBuilt ==
  /\ pc = "failed" => ~(ProperInput /\ RawContentIsText(doc))
  /\ (pc = "done" /\ ProperInput /\ RawContentIsText(doc))
       => builtTree = plainTree(doc)

\* a strict build of nested elements with text has returned
ProperInputDone ==
  /\ pc = "done"
  /\ strict
  /\ ProperInput
  /\ \E i \in DOMAIN nodes :
       /\ Len(nodes[i].children) >= 2
       /\ \E j \in DOMAIN nodes : nodes[j].parent = i /\ nodes[j].kind = "element"
                                  /\ nodes[j].name \notin voidTags

\* C2: in lenient mode a close tag met inside an element of another name closes
\* the nearest open ancestor of its name, the segments after it go to that
\* ancestor's parent; checked on the inputs whose close tags all have an open
\* element of their name.
LenientNearestAncestor ==
  (/\ pc = "done"
   /\ ~strict
   /\ noSegmentOfKind(doc, {"comment", "junk"})
   /\ noRawText(doc)
   /\ HasMismatchedClose(doc)
   /\ EveryCloseHasOpen(doc))
    => builtTree = plainTree(doc)

\* C3: no strict build returns for an input with a close tag whose name is the
\* name of none of the elements open where it occurs.
StrictStrayCloseFails ==
  (/\ strict
   /\ noSegmentOfKind(doc, {"comment", "junk"})
   /\ noRawText(doc)
   /\ HasStrayClose(doc))
    => pc # "done"

\* C4: <p>A<b>B</p> builds in lenient mode to the single root p with the
\* children A and b, b with the only child B; the strict build does not return.
ParagraphBuilt ==
  doc = ParagraphDoc =>
    /\ strict => pc # "done"
    /\ ~strict => pc # "failed"
    /\ (~strict /\ pc = "done") =>
         /\ rootList = <<1>>
         /\ Len(nodes) = 4
         /\ nodes[1].kind = "element" /\ nodes[1].name = "p"
         /\ nodes[1].children = <<2, 3>>
         /\ nodes[2].kind = "text" /\ nodes[2].text = "A"
         /\ nodes[3].kind = "element" /\ nodes[3].name = "b"
         /\ nodes[3].children = <<4>>
         /\ nodes[4].kind = "text" /\ nodes[4].text = "B"
         /\ nodes[4].children = <<>>

ParagraphDone == doc = ParagraphDoc /\ ~strict /\ pc = "done" /\ Len(nodes) = 4

\* C5: the strict build of the page returns with the doctype shortcut on an
\* element named !doctype, the html shortcut on an element whose first child
\* is head, and the body shortcut on an element whose first child is the
\* element input with the attributes {type: text} and no children.
PageBuilt ==
  (doc = PageDoc /\ strict) =>
    /\ pc # "failed"
    /\ pc = "done" =>
         /\ links.doctype # 0
         /\ nodes[links.doctype].kind = "element"
         /\ nodes[links.doctype].name = "!doctype"
         /\ links.html # 0
         /\ nodes[links.html].children # <<>>
         /\ nodes[nodes[links.html].children[1]].name = "head"
         /\ links.body # 0
         /\ nodes[links.body].children # <<>>
         /\ LET input == nodes[nodes[links.body].children[1]] IN
              /\ input.kind = "element"
              /\ input.name = "input"
              /\ input.attributes = << <<"type", "text">> >>
              /\ input.children = <<>>

PageDone == doc = PageDoc /\ strict /\ pc = "done" /\ links.body # 0

----------------------------------------------------------------------------
(* Properties of the tokenizer (SpecIter)                                  *)

opensRawText(s) ==
  s.kind = "element" /\ s.open /\ ~s.close /\ s.name \in contextSwitchTags
closesRawText(s, name) ==
  s.kind = "element" /\ ~s.open /\ s.close /\ s.name = name

RawNames == {<<"s","c","r","i","p","t">>, <<"s","t","y","l","e">>,
             <<"b","l","o","c","k">>}

\* the text h has the close tag </name> at offset q
closeTagAt(h, q, name) ==
  \E chars \in RawNames :
    /\ Str(chars) = name
    /\ Slice(h, q, q + 2 + Len(chars)) = <<"<", "/">> \o chars
    /\ readWhitespace(h, q + 2 + Len(chars)) < Len(h)
    /\ h[readWhitespace(h, q + 2 + Len(chars)) + 1] = ">"

\* the offset of the first close tag </name> at or after from, None if none
firstCloseTag(h, name, from) ==
  LET hits == {q \in from..(Len(h) - 1) : closeTagAt(h, q, name)} IN
  IF hits = {} THEN None ELSE CHOOSE q \in hits : \A r \in hits : q <= r

\* the segment after the raw-text open tag out[i] is its close tag, found at
\* the cursor
closeAtCursor(i) ==
  /\ closesRawText(out[i + 1], out[i].name)
  /\ out[i + 1].start = readWhitespace(html, out[i].end)

\* the segment after out[i] is a text that ends at the first close tag of that
\* name, and the call after it returns that close tag
textUpToClose(i) ==
  /\ out[i + 1].kind = "text"
  /\ out[i + 1].start = readWhitespace(html, out[i].end)
  /\ out[i + 1].end = firstCloseTag(html, out[i].name, out[i + 1].start)
  /\ IF i + 1 = Len(out) THEN pc = "iter"
     ELSE /\ closesRawText(out[i + 2], out[i].name)
          /\ out[i + 2].start = out[i + 1].end

\* the segment after out[i] is the rest of a text without a close tag of that
\* name, read in lenient mode
textUpToEnd(i) ==
  /\ out[i + 1].kind = "text"
  /\ out[i + 1].start = readWhitespace(html, out[i].end)
  /\ firstCloseTag(html, out[i].name, out[i + 1].start) = None
  /\ ~strict
  /\ out[i + 1].end = Len(html)
  /\ i + 1 = Len(out)

segmentOf(piece, s) ==
  CASE piece.kind = "text" -> s.kind = "text"
    [] piece.kind = "comment" -> s.kind = "comment"
    [] piece.kind = "open" ->
         s.kind = "element" /\ s.open /\ ~s.close /\ s.name = piece.name
    [] piece.kind = "doctype" ->
         s.kind = "element" /\ s.open /\ ~s.close /\ s.name = piece.name
    [] piece.kind = "close" ->
         s.kind = "element" /\ ~s.open /\ s.close /\ s.name = piece.name
    [] piece.kind = "void" ->
         s.kind = "element" /\ s.open /\ s.close /\ s.name = piece.name
    [] OTHER -> FALSE

noAdjacentText(d) ==
  \A i \in 1..(Len(d) - 1) :
    ~(Piece(d[i]).kind = "text" /\ Piece(d[i + 1]).kind = "text")

\* a document of builder segments: properly nested tags, text runs that are
\* one segment each, no text after the last tag
WellFormed(d) ==
  /\ noSegmentOfKind(d, {"junk"})
  /\ ProperlyNested(d)
  /\ noAdjacentText(d)
  /\ lastIsNoText(d)

\* the iteration returned the segments of doc, one for one
SegmentForSegment ==
  /\ pc # "failed"
  /\ Len(out) <= Len(doc)
  /\ \A i \in DOMAIN out : segmentOf(Piece(doc[i]), out[i])
  /\ pc = "end" => Len(out) = Len(doc)

\* C7 as stated: the strict iteration over a well-formed document of N builder
\* segments, joined with or without whitespace, returns N segments, the i-th
\* of the kind of the i-th builder segment.
WellFormedCount == (strict /\ WellFormed(doc)) => SegmentForSegment

\* C7: the same for the well-formed documents in which no tag or comment
\* segment lies inside a script, style or block element.
WellFormedPlainCount ==
  (strict /\ WellFormed(doc) /\ RawContentIsText(doc)) => SegmentForSegment

\* the strict iteration over the spaced document of the tests has ended
TestDocIterated ==
  doc = TestDoc /\ strict /\ spacing /\ pc = "end" /\ Len(out) = Len(TestDoc)

\* C8 as stated: the text of every returned segment is the slice of the buffer
\* between its start and its end.
TextIsSlice ==
  \A i \in DOMAIN out :
    out[i].text = Str(Slice(html, out[i].start, out[i].end))

\* C8: the text of a tag or comment segment is that slice; the text of a text
\* segment is that slice without its trailing whitespace, and the slice starts
\* with a character that is no whitespace.
TextIsStrippedSlice ==
  \A i \in DOMAIN out :
    IF out[i].kind = "text"
      THEN /\ out[i].text = Str(rstrip(Slice(html, out[i].start, out[i].end)))
           /\ ~isspace(html[out[i].start + 1])
      ELSE out[i].text = Str(Slice(html, out[i].start, out[i].end))

\* a text whose slice ends in whitespace, a comment and a tag have been returned
SpacedTextRead ==
  /\ \E i \in DOMAIN out : out[i].kind = "text" /\ isspace(html[out[i].end])
  /\ \E i \in DOMAIN out : out[i].kind = "comment"
  /\ \E i \in DOMAIN out : out[i].kind = "element"

\* C9: every returned segment has 0 <= start < end <= length of the buffer,
\* starts no earlier than the segment before it ends, and no returned text
\* segment has empty text.
SegmentsOrdered ==
  \A i \in DOMAIN out :
    /\ 0 <= out[i].start
    /\ out[i].start < out[i].end
    /\ out[i].end <= Len(html)
    /\ i > 1 => out[i].start >= out[i - 1].end
    /\ out[i].kind = "text" => out[i].text # ""

\* a lenient iteration over a spaced text has ended with a trailing text
SpacedSegmentsRead ==
  /\ pc = "end"
  /\ ~strict
  /\ spacing
  /\ Len(out) >= 4
  /\ out[Len(out)].kind = "text"
  /\ out[1].kind = "text"

\* the tag of the element segment s is written as a close tag, as a
\* self-closed tag
writtenAsClose(s) == html[s.start + 2] = "/"
writtenSelfClosed(s) ==
  LET inner == rstrip(Slice(html, s.start, s.end - 1)) IN inner[Len(inner)] = "/"

\* C10: every returned element segment has the flag open or the flag close:
\* open only for <x ...>, close only for </x>, both for <x ... />.
FlagsAsWritten ==
  \A i \in DOMAIN out :
    out[i].kind = "element" =>
      /\ out[i].open \/ out[i].close
      /\ IF writtenAsClose(out[i]) THEN ~out[i].open /\ out[i].close
         ELSE IF writtenSelfClosed(out[i]) THEN out[i].open /\ out[i].close
         ELSE out[i].open /\ ~out[i].close

\* an open tag, a close tag and a self-closed tag have been returned
EveryFlagRead ==
  /\ \E i \in DOMAIN out : out[i].kind = "element" /\ out[i].open /\ ~out[i].close
  /\ \E i \in DOMAIN out : out[i].kind = "element" /\ ~out[i].open /\ out[i].close
  /\ \E i \in DOMAIN out : out[i].kind = "element" /\ out[i].open /\ out[i].close

----------------------------------------------------------------------------
(* Further properties of the tree builder (Spec)                           *)

\* the segment creates a node: an open or self-closed tag, a text, and a
\* comment when comments are kept
createsNode(s) ==
  \/ s.kind = "element" /\ s.open
  \/ s.kind = "text"
  \/ s.kind = "comment" /\ comments

\* the segments the nodes were created from, in the order of the nodes
creators == SelectSeq(out, createsNode)

\* C11: every element whose name is in the void set and every element created
\* from a self-closing tag has an empty children list, whatever follows it in
\* the source; checked on every tree under construction and every built tree.
VoidHasNoChildren ==
  pc # "failed" =>
    /\ Len(creators) = Len(nodes)
    /\ \A i \in DOMAIN nodes :
         (/\ nodes[i].kind = "element"
          /\ nodes[i].name \in voidTags \/ creators[i].close)
           => nodes[i].children = <<>>

\* a tree was built with a void element and a self-closed element of another
\* name, each followed by a sibling
VoidBuilt ==
  /\ pc = "done"
  /\ \E i, j \in DOMAIN nodes :
       /\ nodes[i].kind = "element" /\ nodes[i].name \in voidTags
       /\ ~creators[i].close
       /\ nodes[j].parent = nodes[i].parent /\ j > i
  /\ \E i, j \in DOMAIN nodes :
       /\ nodes[i].kind = "element" /\ nodes[i].name \notin voidTags
       /\ creators[i].close
       /\ nodes[j].parent = nodes[i].parent /\ j > i

\* the last segment of d that is no comment is no text
RECURSIVE lastPlainIsNoText(_)
lastPlainIsNoText(d) ==
  \/ d = <<>>
  \/ /\ d # <<>>
     /\ IF Piece(d[Len(d)]).kind = "comment"
          THEN lastPlainIsNoText(SubSeq(d, 1, Len(d) - 1))
          ELSE Piece(d[Len(d)]).kind # "text"

\* a properly nested input with comments
CommentedInput ==
  /\ hasComment(doc)
  /\ noSegmentOfKind(doc, {"junk"})
  /\ noRawText(doc)
  /\ lastPlainIsNoText(doc)
  /\ ProperlyNested(doc)

\* C12: with comments off a comment at any level creates no node and changes
\* nothing else, with comments on it becomes a comment node at its place among
\* its siblings; checked on the properly nested inputs, whose build without
\* the comments succeeds with the tree read off the nesting of the tags.
CommentsSkippedOrKept ==
  CommentedInput =>
    /\ pc # "failed"
    /\ pc = "done" => builtTree = plainTree(doc)

\* the tokenizer reports the end of the input to the running child pass
endInChild == pc = "child" /\ Call.outcome = "none"

\* C13: when the tokenizer reports the end of the input to a running child
\* pass, the strict build fails; the lenient build returns from that pass with
\* nothing left to resolve, every pass above it goes on, meets the end of the
\* input in turn and returns likewise, and the root pass ends the build, the
\* nodes staying as they are.
EndOfInputCloses ==
  [][/\ endInChild =>
          IF strict
            THEN pc' = "failed" /\ error' = "EndedBeforeClosed"
            ELSE /\ pc' = "return"
                 /\ response' = NoSegment
                 /\ UNCHANGED <<stack, nodes, rootList>>
     /\ (~strict /\ pc = "return" /\ response = NoSegment
           /\ Call.outcome = "none") =>
          /\ pc' = IF Len(stack) = 1 THEN "root" ELSE "child"
          /\ stack' = SubSeq(stack, 1, Len(stack) - 1)
          /\ UNCHANGED <<nodes, rootList>>
     /\ (~strict /\ pc = "root" /\ Call.outcome = "none") =>
          /\ pc' = "done"
          /\ UNCHANGED <<nodes, rootList>>
    ]_vars

\* a lenient build of a text without close tags has returned with an element
\* inside an element
UnclosedBuilt ==
  /\ pc = "done"
  /\ ~strict
  /\ noSegmentOfKind(doc, {"close", "comment", "junk"})
  /\ \E i \in DOMAIN nodes :
       /\ nodes[i].kind = "element"
       /\ nodes[i].parent # 0
       /\ nodes[i].children # <<>>

RECURSIVE rootCloseScan(_, _, _, _)
\* every close tag of d[i..] closes the innermost open element or stands at
\* root level with no element open, and there is one of the latter (seen)
rootCloseScan(d, i, open, seen) ==
  IF i > Len(d) THEN open = <<>> /\ seen
  ELSE IF opensElement(Piece(d[i]))
    THEN rootCloseScan(d, i + 1, Append(open, Piece(d[i]).name), seen)
  ELSE IF Piece(d[i]).kind = "close"
    THEN IF open = <<>> THEN rootCloseScan(d, i + 1, open, TRUE)
         ELSE /\ open[Len(open)] = Piece(d[i]).name
              /\ rootCloseScan(d, i + 1, SubSeq(open, 1, Len(open) - 1), seen)
  ELSE rootCloseScan(d, i + 1, open, seen)

\* an input that is properly nested but for close tags at root level
RootCloseInput ==
  /\ noSegmentOfKind(doc, {"comment", "junk"})
  /\ noRawText(doc)
  /\ rootCloseScan(doc, 1, <<>>, FALSE)

\* the root pass has a close tag in hand
closeAtRoot ==
  /\ pc = "root"
  /\ Call.outcome = "segment"
  /\ Call.segment.kind = "element"
  /\ ~Call.segment.open
  /\ Call.segment.close

\* C14: a close tag met by the root pass makes the strict build fail; in the
\* lenient build it creates no node and the root pass goes on, so that the
\* segments after it become root-level nodes as if the close tag were absent.
RootCloseHandled ==
  /\ [][closeAtRoot =>
          IF strict
            THEN pc' = "failed" /\ error' = "CloseAtRoot"
            ELSE pc' = "root" /\ UNCHANGED <<stack, nodes, rootList>>]_vars
  /\ []((~strict /\ pc = "done" /\ RootCloseInput) => builtTree = plainTree(doc))

\* a lenient build has returned for a text that starts with a close tag and
\* has nodes after it
RootCloseBuilt ==
  /\ pc = "done"
  /\ ~strict
  /\ RootCloseInput
  /\ Piece(doc[1]).kind = "close"
  /\ Len(rootList) >= 2

hasMalformedTag(d) == \E i \in DOMAIN d : d[i] \in MalformedTags

\* C15: no strict build returns a document for an input that contains a tag
\* with a grammar violation (whitespace between "<" and the name, a duplicate
\* attribute name, a quoted attribute name, an unquoted attribute value, a
\* close tag with attributes).
StrictMalformedFails == (strict /\ hasMalformedTag(doc)) => pc # "done"

----------------------------------------------------------------------------
(* Further properties of the tokenizer (SpecIter)                          *)

\* C16: next() returns None only when nothing but whitespace remains after
\* the cursor, and when other input remains from which no segment is read it
\* raises the "Could not read" exception with the offset of that input, also
\* in the raw-text context after an open script, style or block tag.
EndOnlyAtEnd ==
  pc = "iter" =>
    \A r \in {Call} :
      /\ r.outcome = "none" => readWhitespace(html, parser.position) = Len(html)
      /\ (r.outcome # "segment" /\ readWhitespace(html, parser.position) < Len(html))
           => /\ r.outcome = "raise"
              /\ r.parser.position = readWhitespace(html, parser.position)

\* the cursor, after the whitespace skip, is on input that is read as ordinary
\* text, and no comment or tag is recognised from there to the end of the buffer
noMarkupAhead ==
  /\ pc = "iter"
  /\ readWhitespace(html, parser.position) < Len(html)
  /\ parser.segmentNext.kind = "none"
  /\ ~inSpecialContext(parser.segmentCurrent)
  /\ \A q \in readWhitespace(html, parser.position)..(Len(html) - 1) :
       /\ readComment(html, q).kind = "none"
       /\ readTag(html, strict, q).kind \in {"none", "indexerror"}

\* C17: when no comment or tag can be recognised between the cursor and the
\* end of the buffer, the lenient next() returns one text segment from the
\* cursor to the end of the buffer and the strict next() fails, also when the
\* remainder contains "<" characters.
TrailingTextRead ==
  noMarkupAhead =>
    \A r \in {Call} :
      IF strict THEN r.outcome \in {"raise", "indexerror"}
      ELSE /\ r.outcome = "segment"
           /\ r.segment.kind = "text"
           /\ r.segment.start = readWhitespace(html, parser.position)
           /\ r.segment.end = Len(html)

----------------------------------------------------------------------------
(* Properties of the linking pass (Spec)                                   *)

\* the indexes (from 0) of list at which the mode accepts an element
acceptedAt(list, indexes) ==
  {i \in DOMAIN list : ~strict \/ (i - 1) \in indexes}

\* the elements of that name in list at accepted indexes, as places in list
candidates(list, name, indexes) ==
  {i \in acceptedAt(list, indexes) :
     nodes[list[i]].kind = "element" /\ nodes[list[i]].name = name}

\* the shortcut link is unset when list has no candidate, and else is one of them
shortcutAccepted(link, list, name, indexes) ==
  IF candidates(list, name, indexes) = {} THEN link = 0
  ELSE \E i \in candidates(list, name, indexes) : link = list[i]

\* C18: after a strict build the doctype shortcut is set only to a root-list
\* element named !doctype at index 0, html only to a root-list element named
\* html at index 0 or 1, head only to a child of that html element at index 0,
\* body only to a child of it at index 0 or 1; after a lenient build any index
\* is accepted; head and body are unset whenever html is unset.
ShortcutsAtAcceptedIndexes ==
  pc = "done" =>
    /\ shortcutAccepted(links.doctype, rootList, "!doctype", {0})
    /\ shortcutAccepted(links.html, rootList, "html", {0, 1})
    /\ IF links.html = 0 THEN links.head = 0 /\ links.body = 0
       ELSE /\ shortcutAccepted(links.head, nodes[links.html].children, "head", {0})
            /\ shortcutAccepted(links.body, nodes[links.html].children, "body",
                                {0, 1})

\* a lenient build has set html to the third root node and head to its second
\* child
LinkedAnywhere ==
  /\ pc = "done"
  /\ ~strict
  /\ Len(rootList) >= 3
  /\ links.html = rootList[3]
  /\ Len(nodes[links.html].children) >= 2
  /\ links.head = nodes[links.html].children[2]

\* C19: each of the shortcuts doctype, html, head and body refers to the first
\* element of its name, in list order, among the positions the mode accepts.
firstCandidate(link, list, name, indexes) ==
  \A i \in candidates(list, name, indexes) :
    (\A j \in candidates(list, name, indexes) : i <= j) => link = list[i]

ShortcutsAreFirst ==
  pc = "done" =>
    /\ firstCandidate(links.doctype, rootList, "!doctype", {0})
    /\ firstCandidate(links.html, rootList, "html", {0, 1})
    /\ links.html # 0 =>
         /\ firstCandidate(links.head, nodes[links.html].children, "head", {0})
         /\ firstCandidate(links.body, nodes[links.html].children, "body", {0, 1})

----------------------------------------------------------------------------
(* Properties of writing and building again (SpecWrite)                    *)

\* the tree being built from the written text
second == [nodes |-> nodes, rootList |-> rootList, written |-> TRUE]

\* C20 as stated: for every text on which build succeeds, writing the tree
\* with pretty and shrinkText off and building the written text in the same
\* mode gives a tree of the same shape, names, attributes and texts.
WrittenBuildsSame ==
  first # noTree =>
    /\ pc # "failed"
    /\ pc = "done" => second = first

\* the child lists of a tree: the root list and every node's children
childLists(t) ==
  {t.rootList} \cup {t.nodes[i].children : i \in DOMAIN t.nodes}

\* no two text nodes of the tree are next to each other in a child list
noAdjacentTextNodes(t) ==
  \A list \in childLists(t) : \A j \in 1..(Len(list) - 1) :
    ~(t.nodes[list[j]].kind = "text" /\ t.nodes[list[j + 1]].kind = "text")

\* an attribute name that reads back as written: not empty, and without
\* whitespace, quotes, "=", "/" and ">"
plainName(k) ==
  /\ Len(k) > 0
  /\ \A i \in 1..Len(k) :
       SubSeq(k, i, i) \notin Whitespace \cup Quotes \cup {"=", "/", ">"}

\* an attribute value that reads back between double quotes as written
plainValue(v) == \A i \in 1..Len(v) : SubSeq(v, i, i) \notin {"\"", "\\"}

\* every attribute of the tree has a plain name and a plain value
plainAttributes(t) ==
  \A i \in DOMAIN t.nodes : t.nodes[i].kind = "element" =>
    \A j \in DOMAIN t.nodes[i].attributes :
      /\ plainName(t.nodes[i].attributes[j][1])
      /\ plainValue(t.nodes[i].attributes[j][2])

\* the round trip on the trees that the writer reproduces: when no two text
\* nodes of the first tree are adjacent siblings and its attributes have plain
\* names and values, the written text builds, in the same mode, to the same
\* tree
SeparatedWrittenBuildsSame ==
  (first # noTree /\ noAdjacentTextNodes(first) /\ plainAttributes(first)) =>
    /\ pc # "failed"
    /\ pc = "done" => second = first

\* a tree with an attribute and with an element holding text and an element
\* was written and built again
RewrittenBuilt ==
  /\ first # noTree
  /\ pc = "done"
  /\ noAdjacentTextNodes(first)
  /\ plainAttributes(first)
  /\ \E i \in DOMAIN nodes : nodes[i].attributes # <<>>
  /\ \E i \in DOMAIN nodes :
       /\ nodes[i].kind = "element"
       /\ \E j, k \in DOMAIN nodes[i].children :
            /\ nodes[nodes[i].children[j]].kind = "text"
            /\ nodes[nodes[i].children[k]].kind = "element"

----------------------------------------------------------------------------
(* Properties of the written text (SpecWrite)                              *)

startsWith(t, s) == Len(t) >= Len(s) /\ SubSeq(t, 1, Len(s)) = s
endsWith(t, s) == Len(t) >= Len(s) /\ SubSeq(t, Len(t) - Len(s) + 1, Len(t)) = s
count(t, c) == Cardinality({i \in DOMAIN t : t[i] = c})

\* the text write gives for node i of the tree that was written
writtenNode(i) == writeNode(first.nodes, <<i>>, selfClosing)

\* an open tag of that name followed, at the end, by its close tag
openThenClose(t, name) ==
  /\ startsWith(t, <<"<">> \o charsOf(name))
  /\ endsWith(t, <<"<", "/">> \o charsOf(name) \o <<">">>)
  /\ Len(t) >= 2 * Len(name) + 5

\* one tag and nothing else, not written as a close tag
singleTag(t) ==
  /\ startsWith(t, <<"<">>) /\ endsWith(t, <<">">>)
  /\ count(t, "<") = 1 /\ count(t, ">") = 1
  /\ t[2] # "/"

\* C21: write emits every element named html, head, body, script or style as
\* an open tag followed by an explicit close tag, whatever the selfClosing
\* option and also when the element has no children, and every void element
\* as a single tag with no close tag.
NeverSelfClosedAreClosed ==
  first # noTree =>
    \A i \in DOMAIN first.nodes : first.nodes[i].kind = "element" =>
      /\ first.nodes[i].name \in neverSelfClosing =>
           openThenClose(writtenNode(i), first.nodes[i].name)
      /\ first.nodes[i].name \in voidTags => singleTag(writtenNode(i))

\* a childless html, head, body, script or style element and a void element
\* were written with the selfClosing option on
ChildlessWritten ==
  /\ first # noTree
  /\ selfClosing
  /\ \E i, j \in DOMAIN first.nodes :
       /\ first.nodes[i].kind = "element"
       /\ first.nodes[i].name \in neverSelfClosing
       /\ first.nodes[i].children = <<>>
       /\ first.nodes[j].kind = "element"
       /\ first.nodes[j].name \in voidTags

----------------------------------------------------------------------------
(* Properties of search (SpecSearch)                                       *)

RECURSIVE levelsBelow(_, _, _)
\* how many levels node lies below start, by the parents; MaxNodes + 1 when
\* node is not start or a descendant of it
levelsBelow(ns, start, node) ==
  IF node = start THEN 0
  ELSE IF ns[node].parent = 0 THEN MaxNodes + 1
  ELSE 1 + levelsBelow(ns, start, ns[node].parent)

RECURSIVE preorder(_, _)
\* the nodes of list and their descendants in depth-first pre-order
preorder(ns, list) ==
  IF list = <<>> THEN <<>>
  ELSE <<Head(list)>> \o preorder(ns, ns[Head(list)].children)
       \o preorder(ns, Tail(list))

\* the nodes of the tree under start, start included, in document order
documentOrder == preorder(nodes, <<query.start>>)

\* s lists its nodes in document order, each once
inDocumentOrder(s) ==
  s = SelectSeq(documentOrder, LAMBDA node : node \in Range(s))

\* C22: for every tree, start element and maxDepth d >= 0, search returns only
\* nodes at most d levels below the start element, never calls the filter on a
\* deeper node, and lists its results in depth-first pre-order.
SearchWithinDepth ==
  (query.done /\ query.maxDepth # None) =>
    /\ \A node \in Range(query.visited) :
         levelsBelow(nodes, query.start, node) <= query.maxDepth
    /\ Range(query.results) \subseteq Range(query.visited)
    /\ inDocumentOrder(query.results)

\* a search of depth 1 returned two nodes and left out a matching node two
\* levels below the start element
DeeperMatchLeftOut ==
  /\ query.done
  /\ query.maxDepth = 1
  /\ Len(query.results) >= 2
  /\ \E node \in query.matching :
       levelsBelow(nodes, query.start, node) = 2

RECURSIVE preorderWithin(_, _, _)
\* the nodes of list and their descendants down to d more levels (all of them
\* when d is None), in depth-first pre-order
preorderWithin(ns, list, d) ==
  IF list = <<>> THEN <<>>
  ELSE <<Head(list)>>
       \o (IF d = 0 THEN <<>>
           ELSE preorderWithin(ns, ns[Head(list)].children,
                               IF d = None THEN None ELSE d - 1))
       \o preorderWithin(ns, Tail(list), d)

\* the nodes the search may reach and those of them that match, in order
reachable == preorderWithin(nodes, <<query.start>>, query.maxDepth)
matches == SelectSeq(reachable, LAMBDA node : node \in query.matching)
firstOf(s, n) == SubSeq(s, 1, Min(n, Len(s)))
isPrefix(s, t) == Len(s) <= Len(t) /\ s = SubSeq(t, 1, Len(s))

\* the results are the first n matching nodes; the filter is called on the
\* nodes in order, up to the node that reaches the cap and on no node after it
cappedAt(n) ==
  /\ Len(query.results) <= n
  /\ query.results = firstOf(matches, n)
  /\ isPrefix(query.visited, reachable)
  /\ (n >= 1 /\ Len(matches) >= n) =>
       query.visited[Len(query.visited)] = matches[n]
  /\ Len(matches) < n => query.visited = reachable

\* C23: for every tree, predicate and maxResults n >= 0, search returns at
\* most n nodes, the first n matching nodes in pre-order (all if fewer match),
\* and visits no node after the one that reached the cap.
SearchCapped ==
  (query.done /\ query.maxResults # None) => cappedAt(query.maxResults)

\* the same for a cap of one or more
SearchCappedFromOne ==
  (query.done /\ query.maxResults # None /\ query.maxResults >= 1) =>
    cappedAt(query.maxResults)

\* a search reached its cap of two inside a subtree, with matching nodes left
CapReachedInside ==
  /\ query.done
  /\ query.maxResults = 2
  /\ Len(matches) > 2
  /\ levelsBelow(nodes, query.start, query.results[2]) = 2

----------------------------------------------------------------------------
(* Properties of the casing of names (SpecCased)                           *)

\* the first next() call of the build is over: it returned or raised
firstRead == Len(out) >= 1 \/ pc \in {"done", "failed"}

\* the first segment returned is an open element segment named !doctype
doctypeRead ==
  /\ Len(out) >= 1
  /\ out[1].kind = "element"
  /\ out[1].name = "!doctype"
  /\ ~out[1].close

\* C24 as stated: in strict and in lenient mode alike, <!DOCTYPE html>,
\* <!doctype html> and any other casing are returned as an open element
\* segment named !doctype.
DoctypeAnyCase ==
  (doc # <<>> /\ doc[1] \in DoctypeTags /\ firstRead) => doctypeRead

\* C24: in lenient mode every casing of the doctype tag name is returned as an
\* open element segment named !doctype; in strict mode only !DOCTYPE in upper
\* case is, and any other casing gives no element segment.
DoctypeAnyCaseLenient ==
  (doc # <<>> /\ doc[1] \in DoctypeTags /\ firstRead) =>
    /\ (~strict \/ doc[1] = "<!DOCTYPE html>") => doctypeRead
    /\ (strict /\ doc[1] # "<!DOCTYPE html>") =>
         (Len(out) >= 1 => out[1].kind # "element")

\* a lenient build read a doctype tag that is written in mixed case
DoctypeLowerRead ==
  /\ doc # <<>>
  /\ doc[1] = "<!DocType html>"
  /\ ~strict
  /\ doctypeRead

noUpper(s) == \A i \in 1..Len(s) : SubSeq(s, i, i) \notin Uppers
lowerNamed(e) ==
  /\ noUpper(e.name)
  /\ \A j \in DOMAIN e.attributes : noUpper(e.attributes[j][1])

\* the source text has tags in upper case only where the name is not !doctype
casedInput == \A i \in DOMAIN doc : doc[i] \notin DoctypeTags

\* C25: every element segment returned by next() and every element node built
\* from it has a name and attribute keys without upper-case letters; tags that
\* differ only in the casing of the name get the same name, so a close tag
\* closes an open tag written in another casing.
NamesInLowerCase ==
  /\ \A i \in DOMAIN out : out[i].kind = "element" => lowerNamed(out[i])
  /\ \A i \in DOMAIN nodes : nodes[i].kind = "element" => lowerNamed(nodes[i])
  /\ (pc = "done" /\ casedInput /\ ProperInput /\ RawContentIsText(doc))
       => builtTree = plainTree(doc)

\* a build closed an element whose open tag is in upper case by a close tag in
\* lower case, and read an attribute name written in upper case
UpperClosedByLower ==
  /\ pc = "done"
  /\ ProperInput
  /\ \E i \in DOMAIN doc : doc[i] = "<P>"
  /\ \E i \in DOMAIN doc : doc[i] = "</p>"
  /\ \A i \in DOMAIN doc : doc[i] \notin {"<p>", "</P>"}
  /\ \E i \in DOMAIN nodes : nodes[i].attributes = <<<<"id", "a">>>>

----------------------------------------------------------------------------
(* Properties of hasClass (SpecClass)                                      *)

RECURSIVE tokensFrom(_, _)
\* the tokens of t: its maximal runs of characters that are not whitespace;
\* token is the run being read
tokensFrom(t, token) ==
  IF t = <<>> THEN (IF token = <<>> THEN {} ELSE {token})
  ELSE IF isspace(Head(t))
    THEN (IF token = <<>> THEN {} ELSE {token}) \cup tokensFrom(Tail(t), <<>>)
  ELSE tokensFrom(Tail(t), Append(token, Head(t)))

\* the tokens of the class attribute of the element asked, none without one
classTokens ==
  IF HasKey(nodes[query.start].attributes, "class")
    THEN tokensFrom(charsOf(classOf(nodes[query.start])), <<>>)
    ELSE {}

\* C26: hasClass(c) is true exactly when c is one of the tokens obtained by
\* splitting the class attribute on whitespace (spaces, tabs, newlines, runs of
\* them); false for a substring of a token, for the empty string and without a
\* class attribute.
HasClassByToken ==
  query.done => (query.answer <=> charsOf(query.className) \in classTokens)

\* the class attribute separates its tokens by single spaces
singleSpaced(v) ==
  /\ \A i \in 1..Len(v) : SubSeq(v, i, i) \notin {"\t", "\n"}
  /\ Len(v) > 0 => SubSeq(v, 1, 1) # " " /\ SubSeq(v, Len(v), Len(v)) # " "
  /\ \A i \in 1..(Len(v) - 1) : SubSeq(v, i, i + 1) # "  "

\* the same for elements without a class attribute and for class attributes
\* that are not empty and separate their tokens by single spaces
HasClassBySingleSpace ==
  (query.done
   /\ (HasKey(nodes[query.start].attributes, "class") =>
         /\ classOf(nodes[query.start]) # ""
         /\ singleSpaced(classOf(nodes[query.start]))))
    => (query.answer <=> charsOf(query.className) \in classTokens)

----------------------------------------------------------------------------
(* Properties of the current segment and the lookahead (SpecIter)          *)

\* C27: after any number of next() calls the current property is the segment
\* returned by the most recent call that returned one; it is unset before the
\* first segment, and a call that reports end-of-input does not change it.
CurrentStep ==
  parser'.segmentCurrent = IF out' = <<>> THEN NoSegment ELSE out'[Len(out')]
CurrentIsLastReturned ==
  /\ (out = <<>> => parser.segmentCurrent = NoSegment)
  /\ [][CurrentStep]_vars

\* the iteration returned segments and then reported the end of the input
EndReportedAfterSegments ==
  /\ pc = "end"
  /\ Len(out) >= 2
  /\ parser.segmentCurrent = out[Len(out)]

\* C29: whenever next() returns a text segment that was ended by a following
\* tag or comment, the very next next() call returns exactly that tag or
\* comment, which starts at the text segment's end offset, and empties the
\* lookahead; the lookahead holds a segment only between those two calls and
\* never holds a text segment.
LookaheadStep ==
  /\ parser.segmentNext.kind # "none" =>
       /\ out' = Append(out, parser.segmentNext)
       /\ parser'.segmentNext = NoSegment
  /\ parser'.segmentNext.kind # "none" =>
       /\ Len(out') = Len(out) + 1
       /\ out'[Len(out')].kind = "text"
       /\ parser'.segmentNext.kind \in {"element", "comment"}
       /\ parser'.segmentNext.start = out'[Len(out')].end
       /\ parser'.segmentNext.text
            = Str(Slice(html, parser'.segmentNext.start, parser'.segmentNext.end))
  /\ (/\ Len(out') = Len(out) + 1
      /\ out'[Len(out')].kind = "text"
      /\ out'[Len(out')].end < Len(html)) => parser'.segmentNext.kind # "none"
LookaheadServedNext == [][LookaheadStep]_vars

\* a text segment, then the comment that ended it, and the lookahead empty
TextThenLookaheadServed ==
  /\ Len(out) >= 2
  /\ out[Len(out) - 1].kind = "text"
  /\ out[Len(out)].kind = "comment"
  /\ out[Len(out)].start = out[Len(out) - 1].end
  /\ parser.segmentNext = NoSegment

----------------------------------------------------------------------------
(* Properties of the values the child passes return (Spec)                 *)

\* C28: every non-empty value that a child pass returns to its caller is a
\* close-tag segment (close set, open not set) taken from the stream, which a
\* caller that does not match it returns unchanged one level further up.
ReturnsCloseSegment ==
  (pc = "return" /\ response.kind # "none") =>
    /\ response.close
    /\ ~response.open
    /\ out # <<>>
    /\ out[Len(out)] = response

----------------------------------------------------------------------------
(* Properties of the strict grammar (SpecStrict)                           *)

\* the offset of segment i of the source text
startOfPiece(d, sp, i) ==
  Len(Join(SubSeq(d, 1, i - 1), sp)) + (IF sp /\ i > 1 THEN Len(Delimiter) ELSE 0)

\* no element segment was returned for a tag of the set tags
noElementFor(tags) ==
  \A i \in DOMAIN doc :
    doc[i] \in tags =>
      \A k \in DOMAIN out :
        ~(out[k].kind = "element" /\ out[k].start = startOfPiece(doc, spacing, i))

\* C30: in strict mode the tokenizer never returns an element segment for a
\* source tag that has whitespace before or after a tag-name delimiter (after
\* "<" or "</", after the tag name, around the self-closing "/"), a duplicate
\* attribute name, a quoted attribute name, an unquoted attribute value, or
\* attributes on a close tag.
StrictRejectsSpaced == strict => noElementFor(StrictRejected \cup SpacedAfterName)

\* C30, as the code has it: in strict mode no element segment is returned for
\* a tag with whitespace right after "<" or "</" or between the self-closing
\* "/" and ">", a duplicate attribute name, a quoted attribute name, an
\* unquoted attribute value, or attributes on a close tag; whitespace after
\* the tag name, between attributes and before the self-closing "/" or ">" is
\* accepted.
StrictRejects == strict => noElementFor(StrictRejected)

\* a rejected tag was passed over as text and a tag after it was returned
RejectedReadAsText ==
  /\ strict
  /\ \E i \in DOMAIN doc : \E k \in DOMAIN out :
       /\ doc[i] \in StrictRejected
       /\ out[k].kind = "text"
       /\ out[k].start = startOfPiece(doc, spacing, i)
       /\ k < Len(out)
       /\ out[k + 1].kind = "element"

----------------------------------------------------------------------------
(* Properties of the built tree as a whole (SpecWrite)                     *)

\* how often node occurs in list
occurrences(list, node) == Cardinality({k \in DOMAIN list : list[k] = node})

RECURSIVE reachesRoot(_, _, _, _)
\* following the parent references from node reaches a node of the root list
\* within the given number of steps
reachesRoot(ns, list, node, steps) ==
  IF node \in Range(list) THEN TRUE
  ELSE IF steps = 0 \/ ns[node].parent = 0 THEN FALSE
  ELSE reachesRoot(ns, list, ns[node].parent, steps - 1)

\* C31: after every successful build, each node in an element's children list
\* has that element as its parent, each node of the root list has no parent,
\* no node occurs in two children lists or twice in one list, and following
\* parent references from any node reaches a root-list node in finitely many
\* steps.
TreeIsForest ==
  pc = "done" =>
    /\ \A i \in DOMAIN nodes : \A k \in DOMAIN nodes[i].children :
         nodes[nodes[i].children[k]].parent = i
    /\ \A k \in DOMAIN rootList : nodes[rootList[k]].parent = 0
    /\ \A n \in DOMAIN nodes :
         /\ occurrences(rootList, n) <= 1
         /\ \A i \in DOMAIN nodes : occurrences(nodes[i].children, n) <= 1
         /\ \A i, j \in DOMAIN nodes :
              (n \in Range(nodes[i].children) /\ n \in Range(nodes[j].children))
                => i = j
         /\ \A i \in DOMAIN nodes :
              ~(n \in Range(rootList) /\ n \in Range(nodes[i].children))
    /\ \A n \in DOMAIN nodes : reachesRoot(nodes, rootList, n, Len(nodes))

\* a built tree with a node two levels below a root-list node
GrandchildBuilt ==
  /\ pc = "done"
  /\ \E n \in DOMAIN nodes :
       /\ nodes[n].parent # 0
       /\ nodes[nodes[n].parent].parent # 0
       /\ nodes[nodes[n].parent].parent \in Range(rootList)

\* the node holds what _createNode takes from the segment s
createdFrom(node, s) ==
  /\ node.kind = s.kind
  /\ s.kind = "element" => (node.name = s.name /\ node.attributes = s.attributes)
  /\ s.kind = "text" => node.text = s.text
  /\ s.kind = "comment" => node.text = s.comment

\* C35: after every successful build, in both modes and whatever recovery
\* took place, listing all nodes of the tree in depth-first pre-order gives
\* exactly the open-tag segments (self-closing ones included), the text
\* segments and, when comments are included, the comment segments in the
\* order the tokenizer returned them: none is dropped, duplicated or reordered.
PreorderIsSegmentOrder ==
  pc = "done" =>
    /\ Len(preorder(nodes, rootList)) = Len(creators)
    /\ \A k \in DOMAIN creators :
         createdFrom(nodes[preorder(nodes, rootList)[k]], creators[k])
    /\ \A n \in DOMAIN nodes : occurrences(preorder(nodes, rootList), n) = 1

\* a lenient build that recovered from a close tag that closed an outer
\* element, with a node after the recovery
RecoveredInOrder ==
  /\ pc = "done"
  /\ ~strict
  /\ Len(rootList) >= 2
  /\ \E k \in DOMAIN out : \E n \in DOMAIN nodes :
       /\ out[k].kind = "element" /\ ~out[k].open
       /\ nodes[n].kind = "element" /\ nodes[n].parent # 0
       /\ out[k].name = nodes[nodes[n].parent].name
       /\ nodes[n].name \notin voidTags
       /\ \A j \in DOMAIN out :
            (out[j].kind = "element" /\ out[j].name = nodes[n].name)
              => (out[j].open /\ ~out[j].close)

----------------------------------------------------------------------------
(* Properties of the reads at the end of the buffer (SpecIter)             *)

\* C32: for every input in both modes, including inputs that end in the
\* middle of a tag, no read attempt of the tokenizer reads a character at an
\* index at or beyond the buffer length: each next() call ends by returning a
\* segment, by reporting end-of-input, or with the tokenizer's own
\* could-not-read failure.
NoReadBeyondBuffer == error # "IndexError"

----------------------------------------------------------------------------
(* Properties of the progress of the cursor (SpecLive, SpecAgain)          *)

\* what is left to do: the characters after the cursor, then the child passes
\* that have not returned, then the return that is under way
remaining ==
  <<Len(html) - parser.position, Len(stack), IF pc = "return" THEN 0 ELSE 1>>

\* a comes before b in the lexicographic order of triples of naturals
lexLess(a, b) ==
  \/ a[1] < b[1]
  \/ a[1] = b[1] /\ a[2] < b[2]
  \/ a[1] = b[1] /\ a[2] = b[2] /\ a[3] < b[3]

\* a call that returned a segment left the cursor further on, within the
\* buffer; every step ends the run or leaves less to do
CursorStep ==
  /\ Len(out') > Len(out) => parser'.position > parser.position
  /\ parser'.position <= Len(html')
  /\ Len(out') <= Len(html')
  /\ pc' \in {"end", "done", "failed"} \/ lexLess(remaining', remaining)

\* C33: every next() call that returns a segment leaves the cursor strictly
\* greater than it was before the call, so for every input repeated next()
\* calls reach end-of-input or a failure after at most as many returned
\* segments as the buffer has characters, and build terminates: no step of an
\* iteration or of a build fails to bring the end nearer.
CursorAdvances ==
  /\ parser.position = 0
  /\ out = <<>>
  /\ [][CursorStep]_vars

\* an iteration or a build that came to the end of the buffer after three or
\* more segments
CursorAtEnd ==
  /\ pc \in {"end", "done"}
  /\ Len(out) >= 3
  /\ parser.position = Len(html)

\* a call made after the end was reported: it reports the end and leaves the
\* segments returned, the current segment and the lookahead as they were
AgainStep ==
  pc \in {"end", "ended"} =>
    /\ pc' = "ended"
    /\ out' = out
    /\ parser'.segmentCurrent = parser.segmentCurrent
    /\ parser'.segmentNext = parser.segmentNext

\* C34: once next() has reported end-of-input, every later next() call also
\* reports end-of-input, and the current segment and the lookahead stay
\* unchanged.
EndIsFinal == [][AgainStep]_vars

\* next() was called after the end of an iteration that returned segments
CalledAfterEnd ==
  /\ pc = "ended"
  /\ out # <<>>
  /\ parser.segmentCurrent = out[Len(out)]

----------------------------------------------------------------------------
(* Properties of the two modes on one source text (SpecModes)              *)

\* C36: strict mode only restricts lenient mode: for every input on which
\* the strict build succeeds, the lenient build with the same includeComments
\* setting also succeeds and yields the same tree (same shape, names,
\* attributes and text contents).
LenientAgrees ==
  (~strict /\ pc \in {"done", "failed"}) =>
    /\ pc = "done"
    /\ nodes = first.nodes
    /\ rootList = first.rootList

====
